---- MODULE Spec2Model ----
(***************************************************************************)
(* Order creation, cart checkout and stock allocation of the prime_top     *)
(* backend (src/prime_top/views/orders.py, cart.py, admin.py).             *)
(*                                                                         *)
(* Tables are modelled as variables named after the Django models.         *)
(* Quantities (Stocks.stocks_count is a FloatField, order quantities are   *)
(* integers) are modelled as whole units.  A query without order_by is     *)
(* modelled as returning its rows in ascending primary key.                *)
(*                                                                         *)
(* Spec      every request handler is one atomic step (requests served     *)
(*           one after the other).                                         *)
(* SpecAlloc the allocation block alone, run once on an arbitrary ledger.  *)
(* SpecConc  two processes serve requests concurrently, one database        *)
(*           statement per step, READ COMMITTED.                           *)
(* SpecAdmin the administrative writers of the stock ledger.               *)
(* SpecUpdate reading and updating an order, one request at a time.        *)
(* SpecUpdateConc two processes updating one order, load and write apart.  *)
(* SpecLines orders of several lines against arbitrary ledgers.            *)
(* SpecUpdateFail an order update statement by statement, with failures.   *)
(* SpecCheckoutAdd the checkout step by step while items are added.        *)
(* SpecCartAdd two processes adding items to one cart, step by step.       *)
(* SpecLink  two processes linking and unlinking Telegram chats.            *)
(***************************************************************************)
EXTENDS Integers, Sequences, FiniteSets, TLC

\* ------------------------------------------------------------------ bounds
\* MaxStock  highest initial quantity of a stock row (SpecAlloc)
\* MaxQty    highest quantity of a request item or of a cart item
\* MaxLines  rows the order lines table may hold
\* MaxChanges status-history entries beyond the creation entries
\*            (SpecUpdate, SpecUpdateConc)
MaxStock == 2
MaxQty == 2
MaxLines == 2
MaxChanges == 2

\* ------------------------------------------------------- reference data
\* NULL of a nullable foreign key (Stocks.client, OrdersItems.series, ...).
None == 0
\* NULL of a text or date column, and JSON null of a text of a payload.
Null == "<null>"
\* A primary key that resolves to no row (get_object_or_404 raises Http404).
MissingId == 9

Clients == {1, 2}
Products == {1, 2}
Series == {1, 2}
\* The authenticated cart user belongs to client 1 (user.client).
UserClient == 1

\* Dates: every request of a run is served on Today; rows that exist at the
\* start were last updated on InitDate.
InitDate == "2025-01-01"
Today == "2025-01-02"

\* The rows of table stocks: (series, client), client = None for public.
StockIds == 1..5
StockRows ==
  << [series |-> 1, client |-> 1],
     [series |-> 1, client |-> 1],
     [series |-> 1, client |-> None],
     [series |-> 1, client |-> 2],
     [series |-> 2, client |-> None] >>

\* The users the bot may link and the Telegram chats it is used from.
BotUsers == {1, 2}
ChatIds == {101, 102}
\* The user has no TelegramLink row.
NoRow == [tg_chat_id |-> None, is_active |-> FALSE]
NoLinks == [user \in BotUsers |-> NoRow]

VARIABLES
  stocks,                \* Stocks: id -> [series, client, stocks_count, stocks_update_at]
  series_product,        \* Series.product_id: series -> product
  orders,                \* Orders: sequence, orders_id = index
  orders_items,          \* OrdersItems: sequence of [orders, product, series, order_items_count]
  order_status_history,  \* OrderStatusHistory: sequence of [orders, from_stat, to_status]
  cart_updated_at,       \* Cart.cart_updated_at of the user's cart, None: no cart row yet
  cart_items,            \* CartItem rows of the user's cart, in id order
  last,                  \* what the last request did (observer, not program state)
  requests,              \* the request each process is serving (SpecConc)
  telegram_links         \* TelegramLink: user -> [tg_chat_id, is_active]

vars == <<stocks, series_product, orders, orders_items, order_status_history,
          cart_updated_at, cart_items, last, requests, telegram_links>>

\* ------------------------------------------------------------ helpers
Min(a, b) == IF a <= b THEN a ELSE b

RECURSIVE SumOver(_, _)
SumOver(f, S) ==
  IF S = {} THEN 0
  ELSE LET x == CHOOSE y \in S : TRUE IN f[x] + SumOver(f, S \ {x})

\* The ids of S in ascending order (list(queryset) of rows with pk in S).
RECURSIVE AscendingList(_)
AscendingList(S) ==
  IF S = {} THEN <<>>
  ELSE LET m == CHOOSE x \in S : \A y \in S : x <= y
       IN <<m>> \o AscendingList(S \ {m})

\* ------------------------------------------------- allocation (orders.py)
client_stocks_any_owner(st, series, client) ==
  {id \in DOMAIN st : st[id].series = series /\ st[id].stocks_count > 0}

\* Stocks.objects.filter(series=series, client=client, stocks_count__gt=0)
client_stocks(st, series, client) ==
  {id \in DOMAIN st : /\ st[id].series = series
                      /\ st[id].client = client
                      /\ st[id].stocks_count > 0}

\* Stocks.objects.filter(series=series, client__isnull=True, stocks_count__gt=0)
public_stocks(st, series) ==
  {id \in DOMAIN st : /\ st[id].series = series
                      /\ st[id].client = None
                      /\ st[id].stocks_count > 0}

\* qs.aggregate(total=Coalesce(Sum("stocks_count"), 0.0))["total"] or 0.0
aggregate_total(st, ids) == SumOver([id \in ids |-> st[id].stocks_count], ids)

total_available_client_only(st, series, client) ==
  aggregate_total(st, client_stocks(st, series, client))

\* total_available = client_total + public_total
total_available(st, series, client) ==
  aggregate_total(st, client_stocks(st, series, client))
    + aggregate_total(st, public_stocks(st, series))

stocks_records_public_first(st, series, client) ==
  AscendingList(public_stocks(st, series))
    \o AscendingList(client_stocks(st, series, client))

\* list(client_stocks) + list(public_stocks)
stocks_records(st, series, client) ==
  AscendingList(client_stocks(st, series, client))
    \o AscendingList(public_stocks(st, series))

quantity_to_deduct_wrong(remaining_quantity, available_in_record) ==
  remaining_quantity

quantity_to_deduct_unit(remaining_quantity, available_in_record) ==
  Min(remaining_quantity, 1)

\* min(remaining_quantity, available_in_record)
quantity_to_deduct(remaining_quantity, available_in_record) ==
  Min(remaining_quantity, available_in_record)

\* The loop over stocks_records.  a = [stocks, remaining_quantity, written].
RECURSIVE draw_down(_, _)
draw_down(a, records) ==
  IF records = <<>> \/ a.remaining_quantity <= 0 THEN a
  ELSE LET id == Head(records)
           available_in_record == a.stocks[id].stocks_count
       IN IF available_in_record <= 0 THEN draw_down(a, Tail(records))
          ELSE LET q == quantity_to_deduct(a.remaining_quantity, available_in_record)
               IN draw_down(
                    [stocks |-> [a.stocks EXCEPT
                                   ![id].stocks_count = available_in_record - q,
                                   ![id].stocks_update_at = Today],
                     remaining_quantity |-> a.remaining_quantity - q,
                     written |-> a.written \cup {id}],
                    Tail(records))

has_series_always(series) == TRUE

\* if series is not None:
has_series(series) == series # None

insufficient_skipped(available, remaining_quantity) == FALSE

insufficient_wrong(available, remaining_quantity) ==
  available <= remaining_quantity

\* if total_available < remaining_quantity
insufficient(available, remaining_quantity) ==
  available < remaining_quantity

\* The block "if series is not None:" of one line: the availability check and
\* the draw-down.  Result: [ok, stocks, remaining_quantity, written].
allocate(st, client, series, quantity) ==
  IF insufficient(total_available(st, series, client), quantity)
  THEN [ok |-> FALSE, stocks |-> st, remaining_quantity |-> quantity, written |-> {}]
  ELSE LET a == draw_down([stocks |-> st, remaining_quantity |-> quantity,
                           written |-> {}],
                          stocks_records(st, series, client))
       IN [ok |-> TRUE, stocks |-> a.stocks,
           remaining_quantity |-> a.remaining_quantity, written |-> a.written]

\* The cart checkout carries the same statements (cart.py 311-361).
cart_allocate(st, client, series, quantity) == allocate(st, client, series, quantity)

\* ------------------------------------------------------- transactions
\* The tables a transaction of these handlers can write.
DB == [stocks |-> stocks, orders |-> orders, orders_items |-> orders_items,
       order_status_history |-> order_status_history, cart_items |-> cart_items]

abort_unmarked(tx, outcome) == [tx EXCEPT !.outcome = outcome]

\* transaction.set_rollback(True); return JsonResponse(..., status=400)
\* (or an exception such as Http404 leaving the atomic block).
abort(tx, outcome) ==
  [tx EXCEPT !.rollback = TRUE, !.outcome = outcome]

atomic_exit_no_rollback(before, tx) == tx.db

\* Leaving "with transaction.atomic():": commit, or roll back to the state
\* at entry when the transaction was marked for rollback or an exception left it.
atomic_exit(before, tx) == IF tx.rollback THEN before ELSE tx.db

\* --------------------------------------------------- POST /orders/
Item(p, s, q) == [wellformed |-> TRUE, product_id |-> p, series_id |-> s, quantity |-> q]
\* An item int() cannot read (no product_id, non-numeric quantity, ...).
MalformedItem == [wellformed |-> FALSE, product_id |-> None, series_id |-> None, quantity |-> 0]

\* Items whose ids resolve and whose quantity is positive.
GoodItemInputs ==
  {Item(1, None, 1), Item(2, 2, 1), Item(2, 1, 1)}
    \cup {Item(1, 1, q) : q \in 1..MaxQty}

ItemInputs ==
  GoodItemInputs
    \cup {Item(MissingId, None, 1), Item(1, MissingId, 1), Item(1, 1, 0), MalformedItem}

\* Non-empty lists (an empty or non-list "items" is answered 400 before any
\* write).  The handler stops at the first item it rejects, so only the last
\* item of a list is drawn from the items that are rejected on sight.
ItemLists ==
  {l \in UNION {[1..n -> ItemInputs] : n \in 1..MaxLines} :
     \A i \in 1..(Len(l) - 1) : l[i] \in GoodItemInputs}

DefaultStatus == "V ozhidanii"
CreatedSentinel == "Sozdan"
\* A "status_from" the caller may put in the payload of POST /orders/.
SuppliedStatusFrom == "Otgruzhen"
\* payload.get("status_from"): "" stands for an absent, null or empty value.
\* The caller of client 1 sends none, the caller of the other clients sends
\* one with every order.
StatusFromInputs(client_id) ==
  IF client_id = UserClient THEN {""} ELSE {SuppliedStatusFrom}

\* Orders.objects.create(client=..., orders_status=status_value, ...) of a
\* payload that carries no shipped_at, delivered_at and cancel_reason.
new_order(client, status_value) ==
  [client |-> client, orders_status |-> status_value,
   orders_shipped_at |-> Null, orders_delivered_at |-> Null,
   orders_cancel_reason |-> Null]

\* payload.get("status_from") or "Sozdan"
creation_from_stat(status_from) ==
  IF status_from = "" THEN CreatedSentinel ELSE status_from

\* The loop "for item in items_data" inside the transaction, from item i on.
RECURSIVE orders_items_loop(_, _, _, _, _, _)
orders_items_loop(tx, sp, client, order, items_data, i) ==
  IF i > Len(items_data) THEN tx
  ELSE LET item == items_data[i] IN
    IF ~item.wellformed THEN abort(tx, "bad_item")
    ELSE IF item.quantity <= 0 THEN abort(tx, "bad_quantity")
    ELSE IF item.product_id \notin Products THEN abort(tx, "not_found")
    ELSE IF item.series_id # None /\ item.series_id \notin Series
      THEN abort(tx, "not_found")
    ELSE IF item.series_id # None /\ sp[item.series_id] # item.product_id
      THEN abort(tx, "mismatch")
    ELSE
      LET line == [orders |-> order, product |-> item.product_id,
                   series |-> item.series_id, order_items_count |-> item.quantity]
          tx1 == [tx EXCEPT !.db.orders_items = Append(@, line)]
      IN IF ~has_series(item.series_id)
         THEN orders_items_loop(tx1, sp, client, order, items_data, i + 1)
         ELSE LET r == allocate(tx1.db.stocks, client, item.series_id, item.quantity)
              IN IF ~r.ok THEN abort(tx1, "insufficient")
                 ELSE orders_items_loop(
                        [tx1 EXCEPT !.db.stocks = r.stocks,
                                    !.written = @ \cup r.written],
                        sp, client, order, items_data, i + 1)

\* OrderStatusHistory.objects.create(...) as the last statement of the block.
create_history(tx, order, from_stat, to_status) ==
  IF tx.rollback THEN tx
  ELSE [tx EXCEPT !.db.order_status_history =
          Append(@, [orders |-> order, from_stat |-> from_stat, to_status |-> to_status])]

\* The transaction of POST /orders/: the state it leaves and what it did.
orders_transaction(before, sp, client_id, items_data, status_value, status_from) ==
  LET order == Len(before.orders) + 1
      tx0 == [db |-> [before EXCEPT !.orders =
                        Append(@, new_order(client_id, status_value))],
              rollback |-> FALSE, outcome |-> "created", written |-> {}]
  IN create_history(orders_items_loop(tx0, sp, client_id, order, items_data, 1),
                    order, creation_from_stat(status_from), status_value)

\* Observers of a request that carries lines: valid, every line would pass the
\* validation of the handler; seriesless, no line names a series.
ItemValid(sp, item) ==
  /\ item.wellformed
  /\ item.quantity > 0
  /\ item.product_id \in Products
  /\ item.series_id # None =>
       (item.series_id \in Series /\ sp[item.series_id] = item.product_id)

Observed(op, tx, order, valid, seriesless) ==
  [op |-> op, outcome |-> tx.outcome, order |-> IF tx.rollback THEN 0 ELSE order,
   written |-> tx.written,
   valid |-> valid, seriesless |-> seriesless]

Quiet(op, outcome) ==
  [op |-> op, outcome |-> outcome, order |-> 0, written |-> {},
   valid |-> FALSE, seriesless |-> FALSE]

orders_view_POST(client_id, items_data, status_value, status_from) ==
  /\ \E tx \in {orders_transaction(DB, series_product, client_id, items_data,
                                    status_value, status_from)} :
     \E after \in {atomic_exit(DB, tx)} :
        /\ stocks' = after.stocks
        /\ orders' = after.orders
        /\ orders_items' = after.orders_items
        /\ order_status_history' = after.order_status_history
        /\ cart_items' = after.cart_items
        /\ last' = Observed("orders_post", tx, Len(orders) + 1,
                     \A i \in 1..Len(items_data) : ItemValid(series_product, items_data[i]),
                     \A i \in 1..Len(items_data) : items_data[i].series_id = None)
  /\ UNCHANGED <<series_product, cart_updated_at>>

\* --------------------------------------- PATCH /admin/series/<id>/
\* UPDATE series SET product_id = %s WHERE series_id = %s
admin_series_update(series_id, product_id) ==
  /\ series_product' = [series_product EXCEPT ![series_id] = product_id]
  /\ last' = Quiet("admin_series_update", "ok")
  /\ UNCHANGED <<stocks, orders, orders_items, order_status_history,
                 cart_updated_at, cart_items>>

\* ------------------------------------------------------ POST /cart/items/
\* Sum of stocks_count over every row of the series, whoever owns it.
series_stocks_count(st, series) ==
  LET ids == {id \in DOMAIN st : st[id].series = series}
  IN SumOver([id \in ids |-> st[id].stocks_count], ids)

\* Position of the cart item with this (product, series), 0 when there is none.
cart_item_index(items, product, series) ==
  IF \E i \in 1..Len(items) : items[i].product = product /\ items[i].series = series
  THEN CHOOSE i \in 1..Len(items) : items[i].product = product /\ items[i].series = series
  ELSE 0

cart_item_add_view(product_id, series_id, quantity) ==
  IF \/ quantity <= 0
     \/ product_id \notin Products
     \/ series_id # None /\ series_id \notin Series
     \/ series_id # None /\ series_product[series_id] # product_id
     \/ series_id # None /\ series_stocks_count(stocks, series_id) <= 0
  THEN /\ last' = Quiet("cart_add", "rejected")
       /\ UNCHANGED <<stocks, series_product, orders, orders_items,
                      order_status_history, cart_updated_at, cart_items>>
  ELSE LET i == cart_item_index(cart_items, product_id, series_id) IN
       /\ IF i = 0
          THEN cart_items' = Append(cart_items,
                 [product |-> product_id, series |-> series_id,
                  cart_item_quantity |-> quantity])
          ELSE cart_items' = [cart_items EXCEPT ![i].cart_item_quantity = @ + quantity]
       /\ cart_updated_at' = Today
       /\ last' = Quiet("cart_add", "ok")
       /\ UNCHANGED <<stocks, series_product, orders, orders_items, order_status_history>>

\* --------------------------------------------------- POST /cart/checkout/
\* The loop "for cart_item in cart_items" inside the transaction, from item i on.
RECURSIVE cart_items_loop(_, _, _, _, _)
cart_items_loop(tx, client, order, items, i) ==
  IF i > Len(items) THEN tx
  ELSE
    LET cart_item == items[i]
        line == [orders |-> order, product |-> cart_item.product,
                 series |-> cart_item.series,
                 order_items_count |-> cart_item.cart_item_quantity]
        tx1 == [tx EXCEPT !.db.orders_items = Append(@, line)]
    IN IF ~has_series(cart_item.series)
       THEN cart_items_loop(tx1, client, order, items, i + 1)
       ELSE LET r == cart_allocate(tx1.db.stocks, client, cart_item.series,
                                   cart_item.cart_item_quantity)
            IN IF ~r.ok THEN abort(tx1, "insufficient")
               ELSE cart_items_loop(
                      [tx1 EXCEPT !.db.stocks = r.stocks, !.written = @ \cup r.written],
                      client, order, items, i + 1)

delete_cart_items_skipped(tx) == tx

\* cart_items.delete() as the last write of the block.
delete_cart_items(tx) ==
  IF tx.rollback THEN tx ELSE [tx EXCEPT !.db.cart_items = <<>>]

\* The transaction of the checkout over the cart items it iterates.
checkout_transaction(before, client, items, status_value) ==
  LET order == Len(before.orders) + 1
      tx0 == [db |-> [before EXCEPT !.orders =
                        Append(@, new_order(client, status_value))],
              rollback |-> FALSE, outcome |-> "created", written |-> {}]
  IN delete_cart_items(
       create_history(cart_items_loop(tx0, client, order, items, 1),
                      order, "created", status_value))

cart_checkout_view(status_value) ==
  /\ cart_updated_at' = Today
  /\ IF cart_items = <<>>
     THEN /\ last' = Quiet("cart_checkout", "empty_cart")
          /\ UNCHANGED <<stocks, orders, orders_items, order_status_history, cart_items>>
     ELSE \E tx \in {checkout_transaction(DB, UserClient, cart_items, status_value)} :
          \E after \in {atomic_exit(DB, tx)} :
            /\ stocks' = after.stocks
            /\ orders' = after.orders
            /\ orders_items' = after.orders_items
            /\ order_status_history' = after.order_status_history
            /\ cart_items' = after.cart_items
            /\ last' = Observed("cart_checkout", tx, Len(orders) + 1, TRUE,
                         \A i \in 1..Len(cart_items) : cart_items[i].series = None)
  /\ UNCHANGED series_product

\* ---------------------------------------------------------------- Spec
\* The series the administrator moves between products.
ReassignedSeries == CHOOSE s \in Series : \A t \in Series : t <= s

CartAddInputs ==
  {Item(1, None, 1), Item(2, 1, 1), Item(MissingId, None, 1), Item(1, 1, 0)}
    \cup {Item(1, 1, q) : q \in 1..MaxQty}
    \cup {Item(2, 2, q) : q \in 1..MaxQty}

InitCount == <<1, 2, 2, 1, 1>>

\* The processes that serve requests.  Spec and SpecAlloc serve one request
\* at a time, in one step: there every process stays idle.
Procs == {"a", "b"}

\* A process that serves no request.
Idle ==
  [pc |-> "idle", view |-> "none", client |-> None,
   items |-> <<>>, i |-> 0, lines |-> <<>>,
   series |-> None, remaining_quantity |-> 0, client_total |-> 0,
   stocks_records |-> <<>>,
   written |-> {}, stocks_count |-> [id \in StockIds |-> 0]]

\* Bounds of the exploration, stated in Next and not in the handlers: the
\* order lines table holds at most MaxLines rows, the cart never holds more
\* items than can still be ordered nor an item above MaxQty, and the API client
\* posts its orders while the user's cart is empty (orders_view reads and
\* writes no cart table).
CartWithinBounds(add) ==
  LET i == cart_item_index(cart_items, add.product_id, add.series_id)
  IN IF i = 0 THEN Len(orders_items) + Len(cart_items) < MaxLines
     ELSE cart_items[i].cart_item_quantity + add.quantity <= MaxQty

CartIdle == cart_items = <<>>

Init ==
  /\ stocks = [id \in StockIds |->
                 [series |-> StockRows[id].series, client |-> StockRows[id].client,
                  stocks_count |-> InitCount[id], stocks_update_at |-> InitDate]]
  /\ series_product = [s \in Series |-> s]
  /\ orders = <<>>
  /\ orders_items = <<>>
  /\ order_status_history = <<>>
  /\ cart_updated_at = "none"
  /\ cart_items = <<>>
  /\ last = Quiet("init", "ok")
  /\ requests = [p \in Procs |-> Idle]
  /\ telegram_links = NoLinks

Next ==
  \/ \E client_id \in Clients, items_data \in ItemLists,
          status_from \in {"", SuppliedStatusFrom} :
       /\ status_from \in StatusFromInputs(client_id)
       /\ Len(orders_items) + Len(items_data) <= MaxLines
       /\ CartIdle
       /\ orders_view_POST(client_id, items_data, DefaultStatus, status_from)
       /\ UNCHANGED requests
       /\ UNCHANGED telegram_links
  \/ \E product_id \in Products :
       admin_series_update(ReassignedSeries, product_id) /\ UNCHANGED requests /\ UNCHANGED telegram_links
  \/ \E add \in CartAddInputs :
       /\ CartWithinBounds(add)
       /\ cart_item_add_view(add.product_id, add.series_id, add.quantity)
       /\ UNCHANGED requests
       /\ UNCHANGED telegram_links
  \/ /\ Len(orders_items) + Len(cart_items) <= MaxLines
     /\ cart_checkout_view("pending")
     /\ UNCHANGED requests
     /\ UNCHANGED telegram_links

Spec == Init /\ [][Next]_vars

\* ----------------------------------------------------------- SpecAlloc
\* The allocation block of one order line, applied to an arbitrary ledger.
InitLedgers == [StockIds -> 0..MaxStock]
AllocQuantities == 1..(MaxQty + MaxStock)

InitAlloc ==
  /\ \E c \in InitLedgers :
       stocks = [id \in StockIds |->
                   [series |-> StockRows[id].series, client |-> StockRows[id].client,
                    stocks_count |-> c[id], stocks_update_at |-> InitDate]]
  /\ series_product = [s \in Series |-> s]
  /\ orders = <<>>
  /\ orders_items = <<>>
  /\ order_status_history = <<>>
  /\ cart_updated_at = "none"
  /\ cart_items = <<>>
  /\ last = [op |-> "init", outcome |-> "ok", client |-> None, series |-> None,
             quantity |-> 0, written |-> {}, remaining_quantity |-> 0]
  /\ requests = [p \in Procs |-> Idle]
  /\ telegram_links = NoLinks

allocate_line(client, series, quantity) ==
  /\ \E r \in {allocate(stocks, client, series, quantity)} :
       /\ stocks' = r.stocks
       /\ last' = [op |-> "allocate",
                   outcome |-> IF r.ok THEN "ok" ELSE "insufficient",
                   client |-> client, series |-> series, quantity |-> quantity,
                   written |-> r.written, remaining_quantity |-> r.remaining_quantity]
  /\ UNCHANGED <<series_product, orders, orders_items, order_status_history,
                 cart_updated_at, cart_items>>

NextAlloc ==
  \E client \in Clients, series \in Series, quantity \in AllocQuantities :
    allocate_line(client, series, quantity) /\ UNCHANGED requests /\ UNCHANGED telegram_links

SpecAlloc == InitAlloc /\ [][NextAlloc]_vars

\* ------------------------------------------------------------ SpecConc
\* Requests served concurrently by the processes of Procs.  A step is one
\* database statement of a handler together with the local computation that
\* follows it.  The handlers take no row lock (no select_for_update) and the
\* database runs them READ COMMITTED: a statement reads the committed rows and
\* the rows its own transaction wrote; an UPDATE of a row another open
\* transaction wrote waits for that transaction to end.  Rows created inside a
\* transaction (order, lines, history) are kept in the request until commit and
\* get their ids at commit.

\* DELETE /cart/: CartItem.objects.filter(cart=cart).delete()
cart_clear_view ==
  /\ cart_items' = <<>>
  /\ cart_updated_at' = Today
  /\ last' = Quiet("cart_clear", "ok")
  /\ UNCHANGED <<stocks, series_product, orders, orders_items, order_status_history>>

\* DELETE /cart/items/<id>/ of the k-th row of the cart.
cart_item_detail_view_DELETE(k) ==
  /\ k \in 1..Len(cart_items)
  /\ cart_items' = [j \in 1..(Len(cart_items) - 1) |->
                      IF j < k THEN cart_items[j] ELSE cart_items[j + 1]]
  /\ cart_updated_at' = Today
  /\ last' = Quiet("cart_item_delete", "ok")
  /\ UNCHANGED <<stocks, series_product, orders, orders_items, order_status_history>>

\* The stock rows a statement of process p reads.
read_committed(p) ==
  [id \in StockIds |->
     IF id \in requests[p].written
     THEN [stocks[id] EXCEPT !.stocks_count = requests[p].stocks_count[id]]
     ELSE stocks[id]]

\* The row is write-locked by an open transaction other than p's.
locked(p, id) == \E q \in Procs \ {p} : id \in requests[q].written

\* list(queryset): the model instances, each with the count it was loaded with.
instances(st, ids) ==
  LET l == AscendingList(ids)
  IN [k \in 1..Len(l) |-> [id |-> l[k], stocks_count |-> st[l[k]].stocks_count]]

\* Leaving the atomic block by rollback: nothing of the request remains.
rollback(p) == requests' = [requests EXCEPT ![p] = Idle]

\* POST /orders/ up to Orders.objects.create inside the atomic block.  The
\* payloads of this specification carry no "status_from".
begin_orders_view(p, client_id, items_data) ==
  /\ requests[p].pc = "idle"
  /\ requests' = [requests EXCEPT ![p] =
       [Idle EXCEPT !.pc = "item", !.view = "orders_view", !.client = client_id,
                    !.items = items_data, !.i = 1]]
  /\ UNCHANGED <<stocks, series_product, orders, orders_items, order_status_history,
                 cart_updated_at, cart_items, last>>

\* POST /cart/checkout/ up to Orders.objects.create inside the atomic block:
\* the cart is touched, and an empty cart is answered 400.
begin_cart_checkout_view(p) ==
  /\ requests[p].pc = "idle"
  /\ cart_updated_at' = Today
  /\ IF cart_items = <<>>
     THEN UNCHANGED requests
     ELSE requests' = [requests EXCEPT ![p] =
            [Idle EXCEPT !.pc = "iterate", !.view = "cart_checkout_view",
                         !.client = UserClient]]
  /\ UNCHANGED <<stocks, series_product, orders, orders_items, order_status_history,
                 cart_items, last>>

\* "for cart_item in cart_items": the queryset is evaluated now.
iterate_cart_items(p) ==
  /\ requests[p].pc = "iterate"
  /\ requests' = [requests EXCEPT ![p].pc = "item", ![p].items = cart_items, ![p].i = 1]
  /\ UNCHANGED <<stocks, series_product, orders, orders_items, order_status_history,
                 cart_updated_at, cart_items, last>>

\* The line was created: its allocation starts, or the loop moves on.
line_created(r, product, series, quantity) ==
  LET r1 == [r EXCEPT !.lines = Append(@, [product |-> product, series |-> series,
                                           order_items_count |-> quantity])]
  IN IF has_series(series)
     THEN [r1 EXCEPT !.pc = "client_total", !.series = series,
                     !.remaining_quantity = quantity]
     ELSE [r1 EXCEPT !.i = @ + 1]

\* One item of POST /orders/: its validation and OrdersItems.objects.create.
orders_create_order_item(p) ==
  LET r == requests[p] IN
  /\ r.pc = "item" /\ r.view = "orders_view" /\ r.i <= Len(r.items)
  /\ LET item == r.items[r.i] IN
     IF \/ ~item.wellformed
        \/ item.quantity <= 0
        \/ item.product_id \notin Products
        \/ item.series_id # None /\ item.series_id \notin Series
        \/ item.series_id # None /\ series_product[item.series_id] # item.product_id
     THEN rollback(p)
     ELSE requests' = [requests EXCEPT ![p] =
            line_created(r, item.product_id, item.series_id, item.quantity)]
  /\ UNCHANGED <<stocks, series_product, orders, orders_items, order_status_history,
                 cart_updated_at, cart_items, last>>

\* One cart item of the checkout: OrdersItems.objects.create.
cart_create_order_item(p) ==
  LET r == requests[p] IN
  /\ r.pc = "item" /\ r.view = "cart_checkout_view" /\ r.i <= Len(r.items)
  /\ LET cart_item == r.items[r.i] IN
     requests' = [requests EXCEPT ![p] =
       line_created(r, cart_item.product, cart_item.series, cart_item.cart_item_quantity)]
  /\ UNCHANGED <<stocks, series_product, orders, orders_items, order_status_history,
                 cart_updated_at, cart_items, last>>

\* client_total = client_stocks.aggregate(...)
aggregate_client_total(p) ==
  LET r == requests[p]
      st == read_committed(p)
  IN
  /\ r.pc = "client_total"
  /\ requests' = [requests EXCEPT
       ![p].client_total = aggregate_total(st, client_stocks(st, r.series, r.client)),
       ![p].pc = "public_total"]
  /\ UNCHANGED <<stocks, series_product, orders, orders_items, order_status_history,
                 cart_updated_at, cart_items, last>>

\* public_total = public_stocks.aggregate(...) and the availability check.
aggregate_public_total(p) ==
  LET r == requests[p]
      st == read_committed(p)
      public_total == aggregate_total(st, public_stocks(st, r.series))
  IN
  /\ r.pc = "public_total"
  /\ IF insufficient(r.client_total + public_total, r.remaining_quantity)
     THEN rollback(p)
     ELSE requests' = [requests EXCEPT ![p].pc = "list_client"]
  /\ UNCHANGED <<stocks, series_product, orders, orders_items, order_status_history,
                 cart_updated_at, cart_items, last>>

\* list(client_stocks)
list_client_stocks(p) ==
  LET r == requests[p]
      st == read_committed(p)
  IN
  /\ r.pc = "list_client"
  /\ requests' = [requests EXCEPT
       ![p].stocks_records = instances(st, client_stocks(st, r.series, r.client)),
       ![p].pc = "list_public"]
  /\ UNCHANGED <<stocks, series_product, orders, orders_items, order_status_history,
                 cart_updated_at, cart_items, last>>

\* The loop over stocks_records goes on with the next record, or ends and the
\* loop over the items moves on.
next_stock_record(r) ==
  IF r.stocks_records = <<>> \/ r.remaining_quantity <= 0
  THEN [r EXCEPT !.pc = "item", !.i = @ + 1, !.stocks_records = <<>>]
  ELSE [r EXCEPT !.pc = "save"]

\* ... + list(public_stocks)
list_public_stocks(p) ==
  LET r == requests[p]
      st == read_committed(p)
  IN
  /\ r.pc = "list_public"
  /\ requests' = [requests EXCEPT ![p] =
       next_stock_record([r EXCEPT !.stocks_records =
                            @ \o instances(st, public_stocks(st, r.series))])]
  /\ UNCHANGED <<stocks, series_product, orders, orders_items, order_status_history,
                 cart_updated_at, cart_items, last>>

\* One turn of "for stock_record in stocks_records": stock_record.save(...)
\* with the count computed from the instance as it was loaded.
save_stock_record(p) ==
  LET r == requests[p]
      stock_record == Head(r.stocks_records)
      available_in_record == stock_record.stocks_count
      q == quantity_to_deduct(r.remaining_quantity, available_in_record)
  IN
  /\ r.pc = "save"
  /\ IF available_in_record <= 0
     THEN requests' = [requests EXCEPT ![p] =
            next_stock_record([r EXCEPT !.stocks_records = Tail(@)])]
     ELSE /\ ~locked(p, stock_record.id)
          /\ requests' = [requests EXCEPT ![p] =
               next_stock_record(
                 [r EXCEPT !.stocks_records = Tail(@),
                           !.remaining_quantity = @ - q,
                           !.written = @ \cup {stock_record.id},
                           !.stocks_count[stock_record.id] = available_in_record - q])]
  /\ UNCHANGED <<stocks, series_product, orders, orders_items, order_status_history,
                 cart_updated_at, cart_items, last>>

\* Commit of the rows of request r: the order, its lines, its history entry
\* and the stock rows it saved.
commit(r, status_value, from_stat) ==
  LET order == Len(orders) + 1 IN
  /\ orders' = Append(orders, new_order(r.client, status_value))
  /\ orders_items' = orders_items \o
       [k \in 1..Len(r.lines) |->
          [orders |-> order, product |-> r.lines[k].product,
           series |-> r.lines[k].series,
           order_items_count |-> r.lines[k].order_items_count]]
  /\ order_status_history' = Append(order_status_history,
       [orders |-> order, from_stat |-> from_stat, to_status |-> status_value])
  /\ stocks' = [id \in StockIds |->
       IF id \in r.written
       THEN [stocks[id] EXCEPT !.stocks_count = r.stocks_count[id],
                               !.stocks_update_at = Today]
       ELSE stocks[id]]

\* POST /orders/ after its last item: the history entry and the commit.
orders_commit(p) ==
  LET r == requests[p] IN
  /\ r.pc = "item" /\ r.view = "orders_view" /\ r.i > Len(r.items)
  /\ commit(r, DefaultStatus, creation_from_stat(""))
  /\ requests' = [requests EXCEPT ![p] = Idle]
  /\ UNCHANGED <<series_product, cart_updated_at, cart_items, last>>

\* The checkout after its last cart item: the history entry,
\* cart_items.delete(), the touch of the cart and the commit.
checkout_commit(p) ==
  LET r == requests[p] IN
  /\ r.pc = "item" /\ r.view = "cart_checkout_view" /\ r.i > Len(r.items)
  /\ commit(r, "pending", "created")
  /\ cart_items' = <<>>
  /\ cart_updated_at' = Today
  /\ requests' = [requests EXCEPT ![p] = Idle]
  /\ UNCHANGED <<series_product, last>>

\* Requests of one line on series 1, for the smallest and for the largest
\* quantity, and one the validation rejects.
ConcItemLists ==
  {<<Item(1, 1, q)>> : q \in {1, MaxQty}} \cup {<<Item(2, 1, 1)>>}

CartRow(p, s, q) == [product |-> p, series |-> s, cart_item_quantity |-> q]

\* The carts the user may have filled before the requests start.
InitCarts ==
  {<<CartRow(1, 1, q)>> : q \in {1, MaxQty}}
    \cup {<<CartRow(1, None, 1), CartRow(2, 2, 1)>>}

\* The order lines the open requests may still create.
lines_in_flight ==
  LET planned == [p \in Procs |->
                    IF requests[p].pc = "iterate" THEN Len(cart_items)
                    ELSE Len(requests[p].items)]
  IN SumOver(planned, Procs)

InitConc ==
  /\ stocks = [id \in StockIds |->
                 [series |-> StockRows[id].series, client |-> StockRows[id].client,
                  stocks_count |-> InitCount[id], stocks_update_at |-> InitDate]]
  /\ series_product = [s \in Series |-> s]
  /\ orders = <<>>
  /\ orders_items = <<>>
  /\ order_status_history = <<>>
  /\ cart_updated_at = InitDate
  /\ cart_items \in InitCarts
  /\ last = Quiet("init", "ok")
  /\ requests = [p \in Procs |-> Idle]
  /\ telegram_links = NoLinks

NextConc ==
  \/ \E p \in Procs, client_id \in Clients, items_data \in ConcItemLists :
       /\ Len(orders_items) + lines_in_flight + Len(items_data) <= MaxLines
       /\ begin_orders_view(p, client_id, items_data)
       /\ UNCHANGED telegram_links
  \/ \E p \in Procs :
       /\ Len(orders_items) + lines_in_flight + Len(cart_items) <= MaxLines
       /\ begin_cart_checkout_view(p)
       /\ UNCHANGED telegram_links
  \/ \E p \in Procs : iterate_cart_items(p) /\ UNCHANGED telegram_links
  \/ \E p \in Procs : orders_create_order_item(p) /\ UNCHANGED telegram_links
  \/ \E p \in Procs : cart_create_order_item(p) /\ UNCHANGED telegram_links
  \/ \E p \in Procs : aggregate_client_total(p) /\ UNCHANGED telegram_links
  \/ \E p \in Procs : aggregate_public_total(p) /\ UNCHANGED telegram_links
  \/ \E p \in Procs : list_client_stocks(p) /\ UNCHANGED telegram_links
  \/ \E p \in Procs : list_public_stocks(p) /\ UNCHANGED telegram_links
  \/ \E p \in Procs : save_stock_record(p) /\ UNCHANGED telegram_links
  \/ \E p \in Procs : orders_commit(p) /\ UNCHANGED telegram_links
  \/ \E p \in Procs : checkout_commit(p) /\ UNCHANGED telegram_links
  \/ cart_clear_view /\ UNCHANGED requests /\ UNCHANGED telegram_links
  \/ \E k \in 1..Len(cart_items) :
       cart_item_detail_view_DELETE(k) /\ UNCHANGED requests /\ UNCHANGED telegram_links

SpecConc == InitConc /\ [][NextConc]_vars

\* ----------------------------------------------------------- SpecAdmin
\* The administrative writers of table stocks: POST /admin/stocks/,
\* PATCH /admin/stocks/<id>/ and the bulk import of stock rows, served one
\* request at a time on a ledger of two rows.

\* A payload of the admin stock endpoints; has_quantity is FALSE when the
\* payload carries no "quantity".
StockPayload(series_id, client_id, has_quantity, quantity) ==
  [series_id |-> series_id, client_id |-> client_id,
   has_quantity |-> has_quantity, quantity |-> quantity]

\* INSERT INTO stocks (...) VALUES (...) RETURNING stocks_id
insert_stock(st, series, client, quantity) ==
  LET new_id == Cardinality(DOMAIN st) + 1
  IN [id \in DOMAIN st \cup {new_id} |->
        IF id = new_id
        THEN [series |-> series, client |-> client, stocks_count |-> quantity,
              stocks_update_at |-> Today]
        ELSE st[id]]

\* UPDATE stocks SET series_id, client_id, stocks_count, stocks_update_at
\* WHERE stocks_id = %s
update_stock(st, stocks_id, series, client, quantity) ==
  [st EXCEPT ![stocks_id] = [series |-> series, client |-> client,
                             stocks_count |-> quantity, stocks_update_at |-> Today]]

\* if quantity_float < 0: return 400
negative(quantity_float) == quantity_float < 0

\* admin_stocks_create_or_update: the ledger it leaves and its answer.
\* stocks_id = None creates a row.
stocks_create_or_update(st, stocks_id, payload) ==
  IF payload.series_id = None \/ ~payload.has_quantity
    THEN [stocks |-> st, outcome |-> "rejected"]
  ELSE IF payload.series_id \notin Series
    THEN [stocks |-> st, outcome |-> "not_found"]
  ELSE IF negative(payload.quantity)
    THEN [stocks |-> st, outcome |-> "rejected"]
  ELSE IF payload.client_id # None /\ payload.client_id \notin Clients
    THEN [stocks |-> st, outcome |-> "not_found"]
  ELSE IF stocks_id # None
    THEN IF stocks_id \notin DOMAIN st
         THEN [stocks |-> st, outcome |-> "not_found"]
         ELSE [stocks |-> update_stock(st, stocks_id, payload.series_id,
                                       payload.client_id, payload.quantity),
               outcome |-> "ok"]
  ELSE [stocks |-> insert_stock(st, payload.series_id, payload.client_id,
                                payload.quantity),
        outcome |-> "ok"]

admin_stocks_create_or_update(stocks_id, payload) ==
  /\ \E r \in {stocks_create_or_update(stocks, stocks_id, payload)} :
       /\ stocks' = r.stocks
       /\ last' = [op |-> "admin_stocks", outcome |-> r.outcome,
                   negative |-> payload.has_quantity /\ payload.quantity < 0]
  /\ UNCHANGED <<series_product, orders, orders_items, order_status_history,
                 cart_updated_at, cart_items, requests>>

\* SELECT stocks_id FROM stocks WHERE series_id = %s AND (client_id = %s OR
\* (client_id IS NULL AND %s IS NULL)); fetchone(): 0 when no row matches.
existing_stock(st, series_id, client_id) ==
  LET ids == {id \in DOMAIN st : st[id].series = series_id /\ st[id].client = client_id}
  IN IF ids = {} THEN 0 ELSE Head(AscendingList(ids))

\* _process_stocks_data: the loop over the normalized rows, from row i on.
RECURSIVE process_stocks_data(_, _, _)
process_stocks_data(st, normalized_rows, i) ==
  IF i > Len(normalized_rows) THEN st
  ELSE LET row == normalized_rows[i] IN
    IF \/ row.series_id = None
       \/ ~row.has_quantity
       \/ row.series_id \notin Series
       \/ row.client_id # None /\ row.client_id \notin Clients
    THEN process_stocks_data(st, normalized_rows, i + 1)
    ELSE LET existing == existing_stock(st, row.series_id, row.client_id)
         IN process_stocks_data(
              IF existing # 0
              THEN [st EXCEPT ![existing].stocks_count = row.quantity,
                              ![existing].stocks_update_at = Today]
              ELSE insert_stock(st, row.series_id, row.client_id, row.quantity),
              normalized_rows, i + 1)

\* POST /admin/data-lake/upload/ with data_type = stocks.
admin_data_lake_upload(normalized_rows) ==
  /\ stocks' = process_stocks_data(stocks, normalized_rows, 1)
  /\ last' = [op |-> "stocks_import", outcome |-> "ok",
              negative |-> \E i \in 1..Len(normalized_rows) :
                             normalized_rows[i].has_quantity
                               /\ normalized_rows[i].quantity < 0]
  /\ UNCHANGED <<series_product, orders, orders_items, order_status_history,
                 cart_updated_at, cart_items, requests>>

\* The ids the ledger of this specification may hold.
AdminStockIds == {1, 2, 3}

\* Quantities of the admin payloads: negative, zero and the largest stock.
AdminQuantities == {0 - 1, 0, MaxStock}

AdminPayloads ==
  {StockPayload(1, c, TRUE, q) : c \in {None, UserClient}, q \in AdminQuantities}
    \cup {StockPayload(None, None, TRUE, 0), StockPayload(1, None, FALSE, 0),
          StockPayload(MissingId, None, TRUE, 0), StockPayload(1, MissingId, TRUE, 0)}

\* Files of one row.
AdminFiles == {<<payload>> : payload \in AdminPayloads}

InitAdmin ==
  /\ stocks = [id \in {1, 2} |->
                 [series |-> StockRows[id].series, client |-> StockRows[id].client,
                  stocks_count |-> InitCount[id], stocks_update_at |-> InitDate]]
  /\ series_product = [s \in Series |-> s]
  /\ orders = <<>>
  /\ orders_items = <<>>
  /\ order_status_history = <<>>
  /\ cart_updated_at = "none"
  /\ cart_items = <<>>
  /\ last = [op |-> "init", outcome |-> "ok", negative |-> FALSE]
  /\ requests = [p \in Procs |-> Idle]
  /\ telegram_links = NoLinks

NextAdmin ==
  \/ \E payload \in AdminPayloads :
       /\ Cardinality(DOMAIN stocks) + 1 \in AdminStockIds
       /\ admin_stocks_create_or_update(None, payload)
       /\ UNCHANGED telegram_links
  \/ \E stocks_id \in AdminStockIds \cup {MissingId}, payload \in AdminPayloads :
       admin_stocks_create_or_update(stocks_id, payload) /\ UNCHANGED telegram_links
  \/ \E normalized_rows \in AdminFiles :
       /\ Cardinality(DOMAIN process_stocks_data(stocks, normalized_rows, 1))
            \in AdminStockIds
       /\ admin_data_lake_upload(normalized_rows)
       /\ UNCHANGED telegram_links

SpecAdmin == InitAdmin /\ [][NextAdmin]_vars

\* ---------------------------------------------------------- SpecUpdate
\* Reading and updating an order: GET and PATCH /orders/<id>/ and
\* PATCH /admin/orders/<id>/, served one request at a time on a database
\* that holds two orders; the updates address the first.  A payload is the function from the keys the JSON
\* body carries to their values.

\* Column widths of orders_status / history statuses and orders_cancel_reason.
StatusLength == 30
CancelReasonLength == 100

\* _clip(value, length=...): None stays None.
clip(value, length) ==
  IF value = Null THEN Null
  ELSE IF Len(value) <= length THEN value ELSE SubSeq(value, 1, length)

RECURSIVE lstrip(_)
lstrip(text) ==
  IF text # "" /\ Head(text) = " " THEN lstrip(Tail(text)) ELSE text

RECURSIVE rstrip(_)
rstrip(text) ==
  IF text # "" /\ SubSeq(text, Len(text), Len(text)) = " "
  THEN rstrip(SubSeq(text, 1, Len(text) - 1)) ELSE text

\* str.strip()
strip(text) == rstrip(lstrip(text))

\* The texts datetime.fromisoformat accepts, among those of the payloads.
IsoTexts == {"2025-01-03", "2025-01-04", "2025-01-03T10:00:00"}

parse_iso_date_lenient(value) ==
  IF value \in IsoTexts THEN [ok |-> TRUE, value |-> SubSeq(value, 1, 10)]
  ELSE [ok |-> TRUE, value |-> Null]

\* _parse_iso_date(value, field=...): None for an empty value, the date part
\* of an ISO text, ValueError (ok = FALSE) otherwise.
parse_iso_date(value) ==
  IF value \in {Null, ""} THEN [ok |-> TRUE, value |-> Null]
  ELSE IF value \in IsoTexts THEN [ok |-> TRUE, value |-> SubSeq(value, 1, 10)]
  ELSE [ok |-> FALSE, value |-> Null]

\* "status" in payload and payload["status"] is not None
status_supplied(payload) ==
  "status" \in DOMAIN payload /\ payload["status"] # Null

\* new_status = _clip(str(payload["status"]).strip(), length=30)
new_status(payload) == clip(strip(payload["status"]), StatusLength)

\* if new_status and new_status != order.orders_status
status_updated(order, payload) ==
  /\ status_supplied(payload)
  /\ new_status(payload) # ""
  /\ new_status(payload) # order.orders_status

kept_or_null(payload, key, kept_value) == Null

\* The value of a field the payload does not carry: the one loaded.
kept(payload, key, kept_value) == kept_value

\* The date a PATCH leaves in a date field of the order object.
date_field(payload, key, kept_value) ==
  IF key \in DOMAIN payload THEN parse_iso_date(payload[key])
  ELSE [ok |-> TRUE, value |-> kept(payload, key, kept_value)]

\* What an update does: ok (FALSE: answered 400, nothing written), the order
\* object after the assignments, the columns the UPDATE sets, and the history
\* entries it creates.
Update(ok, order, update_fields, history) ==
  [ok |-> ok, order |-> order, update_fields |-> update_fields, history |-> history]

\* order_detail_view (PATCH) on the loaded order object.
order_detail_update(order_id, order, payload) ==
  LET updated == status_updated(order, payload)
      shipped == date_field(payload, "shipped_at", order.orders_shipped_at)
      delivered == date_field(payload, "delivered_at", order.orders_delivered_at)
      cancel == IF "cancel_reason" \in DOMAIN payload
                THEN clip(payload["cancel_reason"], CancelReasonLength)
                ELSE kept(payload, "cancel_reason", order.orders_cancel_reason)
      saved == [order EXCEPT
                  !.orders_status = IF updated THEN new_status(payload) ELSE @,
                  !.orders_shipped_at = shipped.value,
                  !.orders_delivered_at = delivered.value,
                  !.orders_cancel_reason = cancel]
  IN IF ~shipped.ok \/ ~delivered.ok THEN Update(FALSE, order, {}, <<>>)
     ELSE Update(TRUE, saved,
            {"orders_shipped_at", "orders_delivered_at", "orders_cancel_reason"}
              \cup (IF updated THEN {"orders_status"} ELSE {}),
            IF updated
            THEN <<[orders |-> order_id,
                    from_stat |-> clip(order.orders_status, StatusLength),
                    to_status |-> clip(saved.orders_status, StatusLength)]>>
            ELSE <<>>)

\* admin_orders_detail (PATCH) on the loaded order object.
admin_order_update(order_id, order, payload) ==
  LET updated == status_updated(order, payload)
      shipped == date_field(payload, "shipped_at", order.orders_shipped_at)
      delivered == date_field(payload, "delivered_at", order.orders_delivered_at)
      saved == [order EXCEPT
                  !.orders_status = IF updated THEN new_status(payload) ELSE @,
                  !.orders_shipped_at = shipped.value,
                  !.orders_delivered_at = delivered.value,
                  !.orders_cancel_reason =
                     IF "cancel_reason" \in DOMAIN payload
                     THEN clip(payload["cancel_reason"], CancelReasonLength) ELSE @]
  IN IF ~shipped.ok \/ ~delivered.ok THEN Update(FALSE, order, {}, <<>>)
     ELSE Update(TRUE, saved,
            (IF updated THEN {"orders_status"} ELSE {})
              \cup (IF "shipped_at" \in DOMAIN payload THEN {"orders_shipped_at"} ELSE {})
              \cup (IF "delivered_at" \in DOMAIN payload THEN {"orders_delivered_at"} ELSE {})
              \cup (IF "cancel_reason" \in DOMAIN payload
                    THEN {"orders_cancel_reason"} ELSE {}),
            IF updated
            THEN <<[orders |-> order_id,
                    from_stat |-> clip(order.orders_status, StatusLength),
                    to_status |-> clip(payload["status"], StatusLength)]>>
            ELSE <<>>)

order_update(view, order_id, order, payload) ==
  IF view = "order_detail_view" THEN order_detail_update(order_id, order, payload)
  ELSE admin_order_update(order_id, order, payload)

\* UPDATE orders SET <update_fields> WHERE orders_id = order_id
save_order(ords, order_id, u) ==
  [ords EXCEPT ![order_id] =
     [f \in DOMAIN @ |-> IF f \in u.update_fields THEN u.order[f] ELSE @[f]]]

\* PATCH /orders/<id>/ (view = "order_detail_view") and
\* PATCH /admin/orders/<id>/ (view = "admin_orders_detail").
order_PATCH(view, order_id, payload) ==
  /\ IF order_id \notin 1..Len(orders)
     THEN /\ last' = [op |-> view, outcome |-> "not_found", order |-> order_id,
                      payload |-> payload]
          /\ UNCHANGED <<orders, order_status_history>>
     ELSE \E u \in {order_update(view, order_id, orders[order_id], payload)} :
          /\ orders' = save_order(orders, order_id, u)
          /\ order_status_history' = order_status_history \o u.history
          /\ last' = [op |-> view, outcome |-> IF u.ok THEN "ok" ELSE "rejected",
                      order |-> order_id, payload |-> payload]
  /\ UNCHANGED <<stocks, series_product, orders_items, cart_updated_at, cart_items,
                 requests>>

order_by_id_descending(ids) ==
  LET l == AscendingList(ids) IN [k \in 1..Len(l) |-> l[Len(l) + 1 - k]]

\* .order_by("order_status_history_id")
order_by_id(ids) == AscendingList(ids)

\* _serialize_order(order): status, the lines and the status history.
serialize_order(order_id) ==
  LET lines == AscendingList({k \in 1..Len(orders_items) :
                                orders_items[k].orders = order_id})
      history == order_by_id({k \in 1..Len(order_status_history) :
                                order_status_history[k].orders = order_id})
  IN [id |-> order_id,
      status |-> orders[order_id].orders_status,
      items |-> [k \in 1..Len(lines) |->
                   [id |-> lines[k],
                    quantity |-> orders_items[lines[k]].order_items_count,
                    product |-> orders_items[lines[k]].product,
                    series |-> orders_items[lines[k]].series]],
      status_history |-> [k \in 1..Len(history) |->
                   [id |-> history[k],
                    from_status |-> order_status_history[history[k]].from_stat,
                    to_status |-> order_status_history[history[k]].to_status]]]

\* GET /orders/<id>/
order_detail_view_GET(order_id) ==
  /\ last' = IF order_id \notin 1..Len(orders)
             THEN [op |-> "order_get", outcome |-> "not_found", order |-> order_id]
             ELSE [op |-> "order_get", outcome |-> "ok", order |-> order_id,
                   response |-> serialize_order(order_id)]
  /\ UNCHANGED <<stocks, series_product, orders, orders_items, order_status_history,
                 cart_updated_at, cart_items, requests>>

\* Status texts of the payloads: a new status, the same with blanks around
\* it, one longer than the column, the empty text and JSON null.
NewStatus == "Otgruzhen"
PaddedStatus == " Otgruzhen "
LongStatus == "Otgruzhen so sklada v Ekaterinburge"
StatusInputs == {NewStatus, PaddedStatus, LongStatus, DefaultStatus, "", Null}

ShippedInputs == {"2025-01-03", "2025-01-03T10:00:00", "", "soon"}

\* Payloads with a status only, without a status, and with both.
UpdatePayloads ==
  {[status |-> s] : s \in StatusInputs}
    \cup {[shipped_at |-> d] : d \in ShippedInputs}
    \cup {[delivered_at |-> "2025-01-04"], [cancel_reason |-> "brak"],
          [cancel_reason |-> Null],
          [shipped_at |-> "2025-01-03", delivered_at |-> "2025-01-04",
           cancel_reason |-> "brak"],
          [status |-> NewStatus, shipped_at |-> "2025-01-03"],
          [status |-> NewStatus, shipped_at |-> "soon"]}

UpdateViews == {"order_detail_view", "admin_orders_detail"}

\* The database after POST /orders/ {client_id: 1, items: [{product_id: 1,
\* series_id: 1, quantity: 1}, {product_id: 1, quantity: 1}]} and a checkout
\* of a cart that held product 2, series 2, quantity 1.
InitOrders ==
  /\ stocks = [id \in StockIds |->
                 [series |-> StockRows[id].series, client |-> StockRows[id].client,
                  stocks_count |-> IF id \in {1, 5} THEN InitCount[id] - 1
                                   ELSE InitCount[id],
                  stocks_update_at |-> IF id \in {1, 5} THEN Today ELSE InitDate]]
  /\ series_product = [s \in Series |-> s]
  /\ orders = <<new_order(UserClient, DefaultStatus), new_order(UserClient, "pending")>>
  /\ orders_items =
       <<[orders |-> 1, product |-> 1, series |-> 1, order_items_count |-> 1],
         [orders |-> 1, product |-> 1, series |-> None, order_items_count |-> 1],
         [orders |-> 2, product |-> 2, series |-> 2, order_items_count |-> 1]>>
  /\ order_status_history =
       <<[orders |-> 1, from_stat |-> CreatedSentinel, to_status |-> DefaultStatus],
         [orders |-> 2, from_stat |-> "created", to_status |-> "pending"]>>
  /\ cart_updated_at = Today
  /\ cart_items = <<>>
  /\ requests = [p \in Procs |-> Idle]
  /\ telegram_links = NoLinks

InitUpdate ==
  /\ InitOrders
  /\ last = [op |-> "init", outcome |-> "ok", order |-> 0]

\* The history holds at most MaxChanges entries beyond the creation entries.
history_full == Len(order_status_history) >= Len(orders) + MaxChanges

NextUpdate ==
  \/ \E view \in UpdateViews, order_id \in {1, MissingId},
          payload \in UpdatePayloads :
       /\ ~history_full
       /\ order_PATCH(view, order_id, payload)
       /\ UNCHANGED telegram_links
  \/ \E order_id \in {1, 2, MissingId} : order_detail_view_GET(order_id) /\ UNCHANGED telegram_links

SpecUpdate == InitUpdate /\ [][NextUpdate]_vars

\* ------------------------------------------------------ SpecUpdateConc
\* Two processes update the first order.  A request takes two steps: it loads
\* the order (get_object_or_404), and later computes its update from the
\* loaded object and writes it; other requests may write in between.

\* get_object_or_404(Orders, pk=order_id) of a PATCH request.
load_order(p, view, order_id, payload) ==
  /\ requests[p].pc = "idle"
  /\ order_id \in 1..Len(orders)
  /\ requests' = [requests EXCEPT ![p] =
       [pc |-> "loaded", view |-> view, order_id |-> order_id,
        order |-> orders[order_id], payload |-> payload,
        status_from |-> orders[order_id].orders_status]]
  /\ UNCHANGED <<stocks, series_product, orders, orders_items, order_status_history,
                 cart_updated_at, cart_items, last>>

\* The rest of the PATCH: the UPDATE of the order and the history entry.
\* last.status_changes counts, per order, the writes that changed the value
\* of the stored status.
write_order(p) ==
  /\ requests[p].pc = "loaded"
  /\ \E r \in {requests[p]} :
     \E u \in {order_update(r.view, r.order_id, r.order, r.payload)} :
       /\ orders' = save_order(orders, r.order_id, u)
       /\ order_status_history' = order_status_history \o u.history
       /\ last' = [op |-> r.view,
                   status_changes |->
                     [last.status_changes EXCEPT ![r.order_id] =
                        IF orders'[r.order_id].orders_status
                             # orders[r.order_id].orders_status
                        THEN @ + 1 ELSE @]]
  /\ requests' = [requests EXCEPT ![p] = Idle]
  /\ UNCHANGED <<stocks, series_product, orders_items, cart_updated_at, cart_items>>

ConcPayloads ==
  {[status |-> NewStatus], [status |-> DefaultStatus],
   [shipped_at |-> "2025-01-03"], [status |-> NewStatus, shipped_at |-> "soon"]}

InitUpdateConc ==
  /\ InitOrders
  /\ last = [op |-> "init", status_changes |-> [o \in 1..2 |-> 0]]

\* Requests being served.
loaded == {p \in Procs : requests[p].pc # "idle"}

NextUpdateConc ==
  \/ \E p \in Procs, view \in UpdateViews, payload \in ConcPayloads :
       /\ Len(order_status_history) + Cardinality(loaded) < Len(orders) + MaxChanges
       /\ load_order(p, view, 1, payload)
       /\ UNCHANGED telegram_links
  \/ \E p \in Procs : write_order(p) /\ UNCHANGED telegram_links

SpecUpdateConc == InitUpdateConc /\ [][NextUpdateConc]_vars

\* ------------------------------------------------------------ SpecLines
\* Orders of several lines against every ledger of the rows of series 1 that
\* client 1 or the public own: POST /orders/ with lists of valid items, and
\* the checkout of carts that hold two items.  last keeps the client and the
\* items of the POST.

\* POST /orders/ as orders_view_POST, observed with its payload.
orders_view_lines(client_id, items_data) ==
  /\ \E tx \in {orders_transaction(DB, series_product, client_id, items_data,
                                    DefaultStatus, "")} :
     \E after \in {atomic_exit(DB, tx)} :
        /\ stocks' = after.stocks
        /\ orders' = after.orders
        /\ orders_items' = after.orders_items
        /\ order_status_history' = after.order_status_history
        /\ cart_items' = after.cart_items
        /\ last' = [op |-> "orders_post", outcome |-> tx.outcome,
                    client |-> client_id, items |-> items_data]
  /\ UNCHANGED <<series_product, cart_updated_at>>

LineItems ==
  {Item(1, 1, q) : q \in 1..MaxQty} \cup {Item(2, 2, 1), Item(1, None, 1)}

LineItemLists == UNION {[1..n -> LineItems] : n \in 1..MaxLines}

\* The empty cart and carts of two items.  Two items on series 1 name two products: the second
\* was added while the series belonged to product 2 (PATCH /admin/series/1/).
LineCarts ==
  {<<>>}
    \cup {<<CartRow(1, 1, q), CartRow(2, 1, r)>> : q, r \in 1..MaxQty}
    \cup {<<CartRow(1, 1, q), CartRow(2, 2, 1)>> : q \in 1..MaxQty}

LineLedgers ==
  {c \in [StockIds -> 0..MaxStock] : \A id \in {4, 5} : c[id] = InitCount[id]}

InitLines ==
  /\ \E c \in LineLedgers :
       stocks = [id \in StockIds |->
                   [series |-> StockRows[id].series, client |-> StockRows[id].client,
                    stocks_count |-> c[id], stocks_update_at |-> InitDate]]
  /\ series_product = [s \in Series |-> s]
  /\ orders = <<>>
  /\ orders_items = <<>>
  /\ order_status_history = <<>>
  /\ cart_updated_at = InitDate
  /\ cart_items \in LineCarts
  /\ last = [op |-> "init", outcome |-> "ok", client |-> None, items |-> <<>>]
  /\ requests = [p \in Procs |-> Idle]
  /\ telegram_links = NoLinks

\* A request that was refused leaves the tables as they were: the requests
\* that follow it are those that could have come in its place.
AfterRefusal == last.op # "init" /\ last.outcome # "created"

NextLines ==
  \/ \E client_id \in Clients, items_data \in LineItemLists :
       /\ Len(orders_items) + Len(items_data) <= MaxLines
       /\ CartIdle
       /\ ~AfterRefusal
       /\ orders_view_lines(client_id, items_data)
       /\ UNCHANGED requests
       /\ UNCHANGED telegram_links
  \/ /\ Len(orders_items) + Len(cart_items) <= MaxLines
     /\ cart_items # <<>>
     /\ ~AfterRefusal
     /\ cart_checkout_view("pending")
     /\ UNCHANGED requests
     /\ UNCHANGED telegram_links

SpecLines == InitLines /\ [][NextLines]_vars

\* ------------------------------------------------------ SpecUpdateFail
\* The PATCH of an order statement by statement, one request at a time, with
\* requests that end in an error after a statement.  order_detail_view runs
\* order.save() and OrderStatusHistory.objects.create() as two statements,
\* each committed when it returns; admin_orders_detail runs its UPDATE and
\* its create inside transaction.atomic().

\* order.save(update_fields=update_fields) of order_detail_view; a request
\* answered 400 ends here.
save_loaded_order(p) ==
  /\ requests[p].pc = "loaded"
  /\ requests[p].view = "order_detail_view"
  /\ \E r \in {requests[p]} :
     \E u \in {order_update(r.view, r.order_id, r.order, r.payload)} :
       /\ orders' = save_order(orders, r.order_id, u)
       /\ last' = [op |-> r.view,
                   status_changes |->
                     [last.status_changes EXCEPT ![r.order_id] =
                        IF orders'[r.order_id].orders_status
                             # orders[r.order_id].orders_status
                        THEN @ + 1 ELSE @]]
       /\ requests' = [requests EXCEPT ![p] =
                         IF u.history = <<>> THEN Idle
                         ELSE [r EXCEPT !.pc = "saved", !.order = u.order]]
  /\ UNCHANGED <<stocks, series_product, orders_items, order_status_history,
                 cart_updated_at, cart_items>>

\* OrderStatusHistory.objects.create(...) of order_detail_view.
insert_history(p) ==
  /\ requests[p].pc = "saved"
  /\ \E r \in {requests[p]} :
       order_status_history' = Append(order_status_history,
         [orders |-> r.order_id,
          from_stat |-> clip(r.status_from, StatusLength),
          to_status |-> clip(r.order.orders_status, StatusLength)])
  /\ requests' = [requests EXCEPT ![p] = Idle]
  /\ UNCHANGED <<stocks, series_product, orders, orders_items, cart_updated_at,
                 cart_items, last>>

\* The atomic block of admin_orders_detail, committed.
admin_commit(p) ==
  /\ requests[p].view = "admin_orders_detail"
  /\ write_order(p)

\* The request ends in an error (the database refuses the statement, the
\* connection or the worker is lost): what was committed stays, an atomic
\* block that was not left is rolled back.
request_fails(p) ==
  /\ requests[p].pc \in {"loaded", "saved"}
  /\ requests' = [requests EXCEPT ![p] = Idle]
  /\ UNCHANGED <<stocks, series_product, orders, orders_items, order_status_history,
                 cart_updated_at, cart_items, last>>

NextUpdateFail ==
  \/ \E p \in Procs, view \in UpdateViews, payload \in ConcPayloads :
       /\ loaded = {}
       /\ Len(order_status_history) < Len(orders) + MaxChanges
       /\ last.status_changes[1] < MaxChanges
       /\ load_order(p, view, 1, payload)
       /\ UNCHANGED telegram_links
  \/ \E p \in Procs : save_loaded_order(p) /\ UNCHANGED telegram_links
  \/ \E p \in Procs : insert_history(p) /\ UNCHANGED telegram_links
  \/ \E p \in Procs : admin_commit(p) /\ UNCHANGED telegram_links
  \/ \E p \in Procs : request_fails(p) /\ UNCHANGED telegram_links

SpecUpdateFail == InitUpdateConc /\ [][NextUpdateFail]_vars

\* ------------------------------------------------------ SpecCheckoutAdd
\* The checkout statement by statement, as in SpecConc, while the user adds
\* items to the cart (POST /cart/items/, served in one step between two
\* statements of the checkout).
\* The adds of the user: an item without series and one on series 1.
ConcAdds == {Item(1, None, 1), Item(1, 1, 1)}

\* One process serves the checkouts; the adds are served by the other.
CheckoutProcs == {"a"}

NextCheckoutAdd ==
  \/ \E p \in CheckoutProcs :
       /\ Len(orders_items) + lines_in_flight + Len(cart_items) <= MaxLines
       /\ begin_cart_checkout_view(p)
       /\ UNCHANGED telegram_links
  \/ \E p \in Procs : iterate_cart_items(p) /\ UNCHANGED telegram_links
  \/ \E p \in Procs : cart_create_order_item(p) /\ UNCHANGED telegram_links
  \/ \E p \in Procs : aggregate_client_total(p) /\ UNCHANGED telegram_links
  \/ \E p \in Procs : aggregate_public_total(p) /\ UNCHANGED telegram_links
  \/ \E p \in Procs : list_client_stocks(p) /\ UNCHANGED telegram_links
  \/ \E p \in Procs : list_public_stocks(p) /\ UNCHANGED telegram_links
  \/ \E p \in Procs : save_stock_record(p) /\ UNCHANGED telegram_links
  \/ \E p \in Procs : checkout_commit(p) /\ UNCHANGED telegram_links
  \/ \E add \in ConcAdds :
       /\ CartWithinBounds(add)
       /\ cart_item_add_view(add.product_id, add.series_id, add.quantity)
       /\ UNCHANGED requests
       /\ UNCHANGED telegram_links

SpecCheckoutAdd == InitConc /\ [][NextCheckoutAdd]_vars

\* ---------------------------------------------------------- SpecCartAdd
\* POST /cart/items/ of one user by two processes, statement by statement:
\* the SELECT of get_or_create, then its INSERT or the save of the increased
\* quantity.  Table cart_item has no unique constraint on (cart, product,
\* series).  last.accepted sums, per pair, the quantities of the adds that
\* were answered 200 or 201.
AddPairs == {<<1, 1>>, <<1, None>>}

\* The rows of the cart that hold the pair.
cart_item_matches(items, product, series) ==
  {i \in 1..Len(items) : items[i].product = product /\ items[i].series = series}

\* The validations, _get_or_create_cart and the SELECT of
\* CartItem.objects.get_or_create(cart=cart, product=product, series=series):
\* no row, one row (loaded with its quantity), or several rows
\* (MultipleObjectsReturned, the request ends).
get_cart_item(p, product_id, series_id, quantity) ==
  /\ requests[p].pc = "idle"
  /\ quantity > 0
  /\ product_id \in Products
  /\ series_id # None => /\ series_id \in Series
                         /\ series_product[series_id] = product_id
                         /\ series_stocks_count(stocks, series_id) > 0
  /\ cart_updated_at' = Today
  /\ \E found \in {cart_item_matches(cart_items, product_id, series_id)} :
       requests' = [requests EXCEPT ![p] =
         IF Cardinality(found) > 1 THEN Idle
         ELSE [pc |-> IF found = {} THEN "create" ELSE "increase",
               view |-> "cart_item_add_view",
               product |-> product_id, series |-> series_id, quantity |-> quantity,
               cart_item |-> IF found = {} THEN 0 ELSE CHOOSE i \in found : TRUE,
               cart_item_quantity |->
                 IF found = {} THEN 0
                 ELSE cart_items[CHOOSE i \in found : TRUE].cart_item_quantity]]
  /\ UNCHANGED <<stocks, series_product, orders, orders_items, order_status_history,
                 cart_items, last>>

accept(r) ==
  [op |-> "cart_add",
   accepted |-> [last.accepted EXCEPT ![<<r.product, r.series>>] = @ + r.quantity]]

\* The INSERT of get_or_create (created = True) and the touch of the cart.
create_cart_item(p) ==
  /\ requests[p].pc = "create"
  /\ \E r \in {requests[p]} :
       /\ cart_items' = Append(cart_items,
            [product |-> r.product, series |-> r.series,
             cart_item_quantity |-> r.quantity])
       /\ last' = accept(r)
  /\ cart_updated_at' = Today
  /\ requests' = [requests EXCEPT ![p] = Idle]
  /\ UNCHANGED <<stocks, series_product, orders, orders_items, order_status_history>>

\* cart_item.cart_item_quantity += quantity; cart_item.save(update_fields=...)
\* and the touch of the cart.
save_cart_item(p) ==
  /\ requests[p].pc = "increase"
  /\ \E r \in {requests[p]} :
       /\ cart_items' = [cart_items EXCEPT ![r.cart_item].cart_item_quantity =
                           r.cart_item_quantity + r.quantity]
       /\ last' = accept(r)
  /\ cart_updated_at' = Today
  /\ requests' = [requests EXCEPT ![p] = Idle]
  /\ UNCHANGED <<stocks, series_product, orders, orders_items, order_status_history>>

\* The quantity the open requests are about to add.
adding == SumOver([p \in Procs |-> IF requests[p].pc = "idle" THEN 0
                                   ELSE requests[p].quantity], Procs)

InitCartAdd ==
  /\ stocks = [id \in StockIds |->
                 [series |-> StockRows[id].series, client |-> StockRows[id].client,
                  stocks_count |-> InitCount[id], stocks_update_at |-> InitDate]]
  /\ series_product = [s \in Series |-> s]
  /\ orders = <<>>
  /\ orders_items = <<>>
  /\ order_status_history = <<>>
  /\ cart_updated_at = "none"
  /\ cart_items = <<>>
  /\ last = [op |-> "init", accepted |-> [pair \in AddPairs |-> 0]]
  /\ requests = [p \in Procs |-> Idle]
  /\ telegram_links = NoLinks

\* The adds accepted and under way stay within MaxLines * MaxQty units.
NextCartAdd ==
  \/ \E p \in Procs, pair \in AddPairs, quantity \in 1..MaxQty :
       /\ SumOver(last.accepted, AddPairs) + adding + quantity <= MaxLines * MaxQty
       /\ get_cart_item(p, pair[1], pair[2], quantity)
       /\ UNCHANGED telegram_links
  \/ \E p \in Procs : create_cart_item(p) /\ UNCHANGED telegram_links
  \/ \E p \in Procs : save_cart_item(p) /\ UNCHANGED telegram_links

SpecCartAdd == InitCartAdd /\ [][NextCartAdd]_vars

\* ------------------------------------------------------------- SpecLink
\* POST /bot/link/ and POST /bot/unlink/ (bot.py), two processes, one
\* database statement per step.  The TelegramLink table holds at most one
\* row per user; a row is never deleted, unlinking clears is_active.

\* The database constraint on TelegramLink.tg_chat_id: no two rows hold the
\* same chat id.
tg_chat_id_unique(links) ==
  \A u \in BotUsers, v \in BotUsers :
    (u # v /\ links[u].tg_chat_id # None) => links[u].tg_chat_id # links[v].tg_chat_id

conflict_never(links, chat_id, user) == FALSE
\* TelegramLink.objects.filter(tg_chat_id=chat_id_int).exclude(user=user).first()
conflict(links, chat_id, user) ==
  \E other \in BotUsers \ {user} : links[other].tg_chat_id = chat_id

\* TelegramLink.objects.update_or_create(user=user, defaults={...})
update_or_create(links, user, chat_id) ==
  [links EXCEPT ![user] = [tg_chat_id |-> chat_id, is_active |-> TRUE]]

\* TelegramLink.objects.filter(tg_chat_id=chat_id_int).first()
link_of_chat(links, chat_id) == {user \in BotUsers : links[user].tg_chat_id = chat_id}

LinkFrame ==
  UNCHANGED <<stocks, series_product, orders, orders_items, order_status_history,
              cart_updated_at, cart_items>>

LinkAnswer(op, outcome, user, chat_id, credentials_ok) ==
  [op |-> op, outcome |-> outcome, user |-> user, tg_chat_id |-> chat_id,
   credentials_ok |-> credentials_ok]

\* bot_link_view up to the conflict lookup: the credentials are verified,
\* then a chat held by another user's row is answered with 409.
bot_link_view(p, user, chat_id, credentials_ok) ==
  /\ requests[p].pc = "idle"
  /\ LinkFrame
  /\ UNCHANGED telegram_links
  /\ IF ~credentials_ok
       THEN /\ last' = LinkAnswer("bot_link", "unauthorized", user, chat_id, FALSE)
            /\ UNCHANGED requests
       ELSE IF conflict(telegram_links, chat_id, user)
         THEN /\ last' = LinkAnswer("bot_link", "conflict", user, chat_id, TRUE)
              /\ UNCHANGED requests
         ELSE /\ requests' = [requests EXCEPT ![p] =
                                [pc |-> "linking", view |-> "bot_link_view",
                                 user |-> user, tg_chat_id |-> chat_id]]
              /\ UNCHANGED last

\* bot_link_view, the write: update_or_create on the user's row; a write the
\* database refuses raises, and the handler answers 500 "Internal error".
bot_link_write(p) ==
  /\ requests[p].pc = "linking"
  /\ LinkFrame
  /\ requests' = [requests EXCEPT ![p] = Idle]
  /\ \A written \in {update_or_create(telegram_links, requests[p].user,
                                      requests[p].tg_chat_id)} :
       IF tg_chat_id_unique(written)
         THEN /\ telegram_links' = written
              /\ last' = LinkAnswer("bot_link", "linked", requests[p].user,
                                    requests[p].tg_chat_id, TRUE)
         ELSE /\ UNCHANGED telegram_links
              /\ last' = LinkAnswer("bot_link", "error", requests[p].user,
                                    requests[p].tg_chat_id, TRUE)

\* bot_unlink_view up to the lookup of the link by chat id: 404 without a
\* row, 403 when the email of the request is another user's.
bot_unlink_view(p, chat_id, email_user) ==
  /\ requests[p].pc = "idle"
  /\ LinkFrame
  /\ UNCHANGED telegram_links
  /\ IF link_of_chat(telegram_links, chat_id) = {}
       THEN /\ last' = LinkAnswer("bot_unlink", "not_found", email_user, chat_id, TRUE)
            /\ UNCHANGED requests
       ELSE \E link \in link_of_chat(telegram_links, chat_id) :
              IF email_user # None /\ email_user # link
                THEN /\ last' = LinkAnswer("bot_unlink", "forbidden", email_user,
                                           chat_id, TRUE)
                     /\ UNCHANGED requests
                ELSE /\ requests' = [requests EXCEPT ![p] =
                                       [pc |-> "unlinking", view |-> "bot_unlink_view",
                                        user |-> link, tg_chat_id |-> chat_id]]
                     /\ UNCHANGED last

\* link.is_active = False; link.save(update_fields=["is_active"])
bot_unlink_save(p) ==
  /\ requests[p].pc = "unlinking"
  /\ LinkFrame
  /\ requests' = [requests EXCEPT ![p] = Idle]
  /\ telegram_links' = [telegram_links EXCEPT ![requests[p].user].is_active = FALSE]
  /\ last' = LinkAnswer("bot_unlink", "unlinked", requests[p].user,
                        requests[p].tg_chat_id, TRUE)

InitLink ==
  /\ stocks = [id \in StockIds |->
                 [series |-> StockRows[id].series, client |-> StockRows[id].client,
                  stocks_count |-> InitCount[id], stocks_update_at |-> InitDate]]
  /\ series_product = [s \in Series |-> s]
  /\ orders = <<>>
  /\ orders_items = <<>>
  /\ order_status_history = <<>>
  /\ cart_updated_at = "none"
  /\ cart_items = <<>>
  /\ last = LinkAnswer("init", "none", None, None, FALSE)
  /\ requests = [p \in Procs |-> Idle]
  /\ telegram_links = NoLinks

NextLink ==
  \/ \E p \in Procs, user \in BotUsers, chat_id \in ChatIds, credentials_ok \in BOOLEAN :
       bot_link_view(p, user, chat_id, credentials_ok)
  \/ \E p \in Procs : bot_link_write(p)
  \/ \E p \in Procs, chat_id \in ChatIds, email_user \in BotUsers \cup {None} :
       bot_unlink_view(p, chat_id, email_user)
  \/ \E p \in Procs : bot_unlink_save(p)

SpecLink == InitLink /\ [][NextLink]_vars


\* ============================================================== claims
\* Observers used by the claims.
Creations == {"orders_post", "cart_checkout"}
ValidationFailures == {"bad_item", "bad_quantity", "not_found", "mismatch"}

\* The rows an allocation for client c on series S draws on.
Pool(st, S, c) == {id \in DOMAIN st : st[id].series = S /\ st[id].client \in {c, None}}
CountOver(st, ids) == SumOver([id \in ids |-> st[id].stocks_count], ids)

\* The positions in table orders_items of the lines of order o.
LinesOf(items, o) == {k \in 1..Len(items) : items[k].orders = o}
QuantityOver(items, ks) == SumOver([k \in ks |-> items[k].order_items_count], ks)

\* C1: a request that creates an order lowers, for every series S, the stock of
\* the ordering client's rows plus the public rows of S by exactly the total
\* quantity of the order's lines on S, and the rows the allocation wrote carry
\* the whole decrease (every other row of the pool keeps its quantity).
C1_Conservation ==
  [][(last'.op \in Creations /\ last'.outcome = "created") =>
       LET o == last'.order
           c == orders'[o].client
       IN \A S \in Series :
            LET pool == Pool(stocks, S, c)
                lines == {k \in LinesOf(orders_items', o) : orders_items'[k].series = S}
                requested == QuantityOver(orders_items', lines)
            IN /\ CountOver(stocks, pool) - CountOver(stocks', pool) = requested
               /\ CountOver(stocks, pool \cap last'.written)
                    - CountOver(stocks', pool \cap last'.written) = requested
               /\ \A id \in pool \ last'.written :
                    stocks'[id].stocks_count = stocks[id].stocks_count
    ]_vars

\* An order of two lines on one series was created and its allocation wrote
\* at least two stock rows.
C1_Witness ==
  /\ last.op \in Creations /\ last.outcome = "created"
  /\ Cardinality(last.written) >= 2
  /\ \E j, k \in LinesOf(orders_items, last.order) :
       j # k /\ orders_items[j].series = orders_items[k].series
             /\ orders_items[j].series # None

\* C3: a creation request that ends with insufficient stock leaves the orders,
\* the order lines, the status history, every stock row and the cart items as
\* they were before the request.
C3_AtomicInsufficient ==
  [][(last'.op \in Creations /\ last'.outcome = "insufficient") =>
       UNCHANGED <<stocks, orders, orders_items, order_status_history, cart_items>>
    ]_vars

\* A cart checkout failed for lack of stock after an earlier line of the same
\* order had already written stock rows.
C3_Witness ==
  /\ last.op = "cart_checkout" /\ last.outcome = "insufficient"
  /\ last.written # {}
  /\ cart_items # <<>>

\* C7: a POST /orders/ rejected by the validation of an item persists nothing:
\* orders, order lines, status history and stock rows are as before.
C7_NoPartialWrites ==
  [][(last'.op = "orders_post" /\ last'.outcome \in ValidationFailures) =>
       UNCHANGED <<stocks, orders, orders_items, order_status_history>>
    ]_vars

\* A POST /orders/ was rejected for a series/product mismatch after an earlier
\* item of the request had created its line and decremented stock.
C7_Witness ==
  /\ last.op = "orders_post" /\ last.outcome = "mismatch"
  /\ last.written # {}

\* C8: every order line a request persists has a series that belongs to the
\* line's product (or no series), at the time the line is persisted.
C8_NoMismatchedLine ==
  [][\A k \in (Len(orders_items) + 1)..Len(orders_items') :
       orders_items'[k].series # None =>
         series_product'[orders_items'[k].series] = orders_items'[k].product
    ]_vars

\* C10: a creation request whose lines all lack a series and are otherwise
\* valid succeeds whatever the stock levels and leaves every stock row as it
\* was; in any created order the stock removed over all rows equals the total
\* quantity of the lines that have a series.
C10_SerieslessBypass ==
  [][(last'.op \in Creations) =>
       /\ (last'.valid /\ last'.seriesless) =>
            (last'.outcome = "created" /\ stocks' = stocks)
       /\ last'.outcome = "created" =>
            LET with_series == {k \in LinesOf(orders_items', last'.order) :
                                  orders_items'[k].series # None}
            IN CountOver(stocks, StockIds) - CountOver(stocks', StockIds)
                 = QuantityOver(orders_items', with_series)
    ]_vars

\* An order was created from a series-less line and a line with a series.
C10_Witness ==
  /\ last.op \in Creations /\ last.outcome = "created"
  /\ \E j, k \in LinesOf(orders_items, last.order) :
       orders_items[j].series = None /\ orders_items[k].series # None

\* Sum of the positive quantities of the rows of ids.
PositiveOver(st, ids) ==
  SumOver([id \in ids |-> IF st[id].stocks_count > 0 THEN st[id].stocks_count ELSE 0], ids)

\* C4: the allocation of (client, series, quantity) ends with the
\* insufficient-stock error exactly when the positive quantities of the client's
\* rows plus the public rows of the series sum to strictly less than the
\* quantity, and a failing check writes no stock row.
C4_AvailabilityCheck ==
  [][(last'.op = "allocate") =>
       LET available == PositiveOver(stocks, Pool(stocks, last'.series, last'.client))
       IN /\ (last'.outcome = "insufficient") <=> (available < last'.quantity)
          /\ (last'.outcome = "insufficient") => (stocks' = stocks /\ last'.written = {})
    ]_vars

\* A request equal to the whole available sum succeeded: it wrote two or more
\* rows and left every row of the pool at zero.
C4_Witness ==
  /\ last.op = "allocate" /\ last.outcome = "ok"
  /\ Cardinality(last.written) >= 2
  /\ \A id \in Pool(stocks, last.series, last.client) : stocks[id].stocks_count = 0

\* C5: in a successful allocation a public row of the series is decremented
\* only if every row of the series owned by the ordering client is at zero
\* after the allocation.
C5_ClientFirst ==
  [][(last'.op = "allocate" /\ last'.outcome = "ok") =>
       \A p \in StockIds :
         (/\ stocks[p].series = last'.series
          /\ stocks[p].client = None
          /\ (p \in last'.written \/ stocks'[p].stocks_count # stocks[p].stocks_count))
         => \A r \in StockIds :
              (stocks[r].series = last'.series /\ stocks[r].client = last'.client)
                => stocks'[r].stocks_count = 0
    ]_vars

\* An allocation drained two client rows and then took from a public row.
C5_Witness ==
  /\ last.op = "allocate" /\ last.outcome = "ok"
  /\ \E p \in last.written : stocks[p].client = None
  /\ Cardinality({r \in last.written : stocks[r].client = last.client}) >= 2

\* The quantity the committed order lines carry on series S, and the
\* quantity that left the stock rows of S since the start.
ordered_on(S) ==
  QuantityOver(orders_items, {k \in 1..Len(orders_items) : orders_items[k].series = S})
removed_from(S) ==
  LET ids == {id \in StockIds : StockRows[id].series = S}
  IN SumOver([id \in ids |-> InitCount[id]], ids) - series_stocks_count(stocks, S)

\* C2: whatever the interleaving of order creations and checkouts, for every
\* series the total quantity of the committed order lines equals the total
\* quantity removed from the stock rows of the series (the result of some
\* serial order of the requests).
C2_Serialized ==
  \A S \in Series : ordered_on(S) = removed_from(S)

\* C6: every committed stock row has a quantity >= 0 and every quantity a
\* request has saved in its open transaction is >= 0, whatever the interleaving.
C6_NoNegativeStock ==
  /\ \A id \in StockIds : stocks[id].stocks_count >= 0
  /\ \A p \in Procs : \A id \in requests[p].written :
       requests[p].stocks_count[id] >= 0

\* Two requests raced on the rows of a series: both committed, more was
\* ordered on the series than left its rows, and a row they both saved is at
\* zero.
C6_Witness ==
  \E S \in Series :
    /\ ordered_on(S) > removed_from(S)
    /\ \E id \in StockIds :
         /\ stocks[id].series = S
         /\ stocks[id].stocks_count = 0
         /\ stocks[id].stocks_update_at = Today

\* C9: every committed order has at least one order line and every order line
\* has a quantity > 0, whatever the interleaving of a checkout with requests
\* that delete cart items or clear the cart.
C9_NoEmptyOrder ==
  /\ \A o \in 1..Len(orders) : LinesOf(orders_items, o) # {}
  /\ \A k \in 1..Len(orders_items) : orders_items[k].order_items_count > 0

\* The history entries of order o, and the creation sentinels of the two paths.
HistoryOf(h, o) == {k \in 1..Len(h) : h[k].orders = o}
CreationSentinels == {CreatedSentinel, "created"}

\* C11: a request that creates an order commits, together with the order and
\* its lines, exactly one status-history entry of that order, whose to_status
\* is the order's initial status and whose from_status is the creation
\* sentinel; a request that creates no order adds no history entry.
C11_CreationHistory ==
  [][(last'.op \in Creations) =>
       IF last'.outcome = "created"
       THEN LET o == last'.order
                entries == HistoryOf(order_status_history', o)
            IN /\ Len(orders') = Len(orders) + 1
               /\ LinesOf(orders_items', o) # {}
               /\ Cardinality(entries) = 1
               /\ \A k \in entries :
                    /\ order_status_history'[k].to_status = orders'[o].orders_status
                    /\ order_status_history'[k].from_stat \in CreationSentinels
       ELSE UNCHANGED <<orders, orders_items, order_status_history>>
    ]_vars

\* C14: a cart checkout that creates an order leaves the cart without items
\* and with its updated_at touched, in the step that commits the order; a
\* checkout that creates no order leaves the cart items as they were.
C14_CartCleared ==
  [][(last'.op = "cart_checkout") =>
       IF last'.outcome = "created"
       THEN /\ Len(orders') = Len(orders) + 1
            /\ cart_items' = <<>>
            /\ cart_updated_at' = Today
       ELSE cart_items' = cart_items /\ orders' = orders
    ]_vars

\* A checkout turned a cart of two items into an order of two lines and left
\* the cart empty.
C14_Witness ==
  /\ last.op = "cart_checkout" /\ last.outcome = "created"
  /\ Cardinality(LinesOf(orders_items, last.order)) >= 2
  /\ cart_items = <<>>

\* The orders a cart checkout created: their creation entry is from "created".
FromCheckout(o) ==
  \E k \in HistoryOf(order_status_history, o) :
    order_status_history[k].from_stat = "created"

\* C15: the cart of this specification never gains an item and holds at most
\* one item per (product, series), so over all committed checkout orders there
\* is at most one order line per (product, series), whatever the interleaving
\* of the checkout requests.
C15_OneLinePerCartItem ==
  \A product \in Products : \A series \in Series \cup {None} :
    Cardinality({k \in 1..Len(orders_items) :
                   /\ FromCheckout(orders_items[k].orders)
                   /\ orders_items[k].product = product
                   /\ orders_items[k].series = series}) <= 1

\* C20: when a request commits, the draw-down loop of its line with a series
\* has ended with remaining_quantity = 0 (every request of this specification
\* has at most one line with a series).
C20_FullDeduction ==
  [][\A p \in Procs :
       (/\ requests[p].pc = "item"
        /\ requests[p].i > Len(requests[p].items)
        /\ requests'[p].pc = "idle"
        /\ Len(orders') = Len(orders) + 1)
       => requests[p].remaining_quantity = 0
    ]_vars

\* The quantity still requested when the loop reaches position j of the
\* records: the request less the counts of the records before j.
RECURSIVE RequestedAt(_, _, _, _)
RequestedAt(st, records, quantity, j) ==
  IF j = 1 THEN quantity
  ELSE RequestedAt(st, records, quantity, j - 1) - st[records[j - 1]].stocks_count

\* C19: in a successful allocation the row at position j of stocks_records is
\* written exactly when the request has not yet reached zero there, and is
\* then reduced by min(remaining request, row quantity); every written row
\* but the last written one ends at zero, at most one written row keeps a
\* positive quantity, and the loop ends with nothing left to deduct.
C19_GreedyShape ==
  [][(last'.op = "allocate" /\ last'.outcome = "ok") =>
       \A records \in {stocks_records(stocks, last'.series, last'.client)} :
       \A left \in {[j \in 1..Len(records) |->
                      RequestedAt(stocks, records, last'.quantity, j)]} :
       \A written_at \in {{j \in 1..Len(records) : records[j] \in last'.written}} :
          /\ \A j \in 1..Len(records) :
               LET id == records[j]
                   available == stocks[id].stocks_count
               IN /\ (j \in written_at) <=> (left[j] > 0)
                  /\ stocks'[id].stocks_count =
                       available - (IF left[j] > 0 THEN Min(left[j], available) ELSE 0)
          /\ \A j \in written_at :
               (\E k \in written_at : k > j) => stocks'[records[j]].stocks_count = 0
          /\ Cardinality({j \in written_at : stocks'[records[j]].stocks_count > 0}) <= 1
          /\ last'.written \subseteq {records[j] : j \in 1..Len(records)}
          /\ last'.remaining_quantity = 0
    ]_vars

\* An allocation drained one row, left the next one partially consumed and
\* did not write a further row of the pool that had stock.
C19_Witness ==
  /\ last.op = "allocate" /\ last.outcome = "ok"
  /\ \E a, b \in last.written :
       stocks[a].stocks_count = 0 /\ stocks[b].stocks_count > 0
  /\ \E c \in Pool(stocks, last.series, last.client) \ last.written :
       stocks[c].stocks_count > 0 /\ stocks[c].stocks_update_at = InitDate

\* C17: an admin stock create, an admin stock update or a bulk import of
\* stock rows leaves no stock row with a negative quantity, and such a request
\* that carries a negative quantity leaves the ledger as it was.
C17_AdminNonNegative ==
  [][(last'.op \in {"admin_stocks", "stocks_import"}) =>
       /\ \A id \in DOMAIN stocks' :
            (id \notin DOMAIN stocks \/ stocks'[id] # stocks[id])
              => stocks'[id].stocks_count >= 0
       /\ last'.negative => stocks' = stocks
    ]_vars

\* The elements of a list.
Range(list) == {list[k] : k \in DOMAIN list}

\* The history entries a step appends.
Appended ==
  SubSeq(order_status_history', Len(order_status_history) + 1,
         Len(order_status_history'))

\* The step is an order update answered 200.
OrderUpdated ==
  /\ last'.op \in UpdateViews
  /\ last'.outcome = "ok"

\* C12: an order update (PATCH /orders/<id>/ or the admin PATCH) appends a
\* status-history entry if and only if the request supplies a status that,
\* once trimmed and cut to the column, is not empty and differs from the
\* order's current status; the entry has from_status = the status before the
\* update and to_status = the order's status after the update.  An update
\* whose status is absent, null or equal to the current status appends
\* nothing and leaves the status as it is.
C12_StatusUpdateRule ==
  [][OrderUpdated =>
       LET o == last'.order
           payload == last'.payload
           before == orders[o].orders_status
           after == orders'[o].orders_status
           supplied == "status" \in DOMAIN payload /\ payload["status"] # Null
           differs == /\ supplied
                      /\ clip(strip(payload["status"]), StatusLength) \notin {"", before}
       IN /\ Len(Appended) = (IF differs THEN 1 ELSE 0)
          /\ (~supplied \/ payload["status"] = before) => after = before
          /\ \A k \in 1..Len(Appended) :
               /\ Appended[k].orders = o
               /\ Appended[k].from_stat = before
               /\ Appended[k].to_status = after]_vars

\* C16: an order update that supplies no status leaves the order's status
\* unchanged and appends no history entry; an update that supplies only a
\* status leaves shipped_at, delivered_at and cancel_reason unchanged.
C16_NoStatusDateCoupling ==
  [][OrderUpdated =>
       LET o == last'.order
           payload == last'.payload
       IN /\ "status" \notin DOMAIN payload =>
               /\ orders'[o].orders_status = orders[o].orders_status
               /\ order_status_history' = order_status_history
          /\ DOMAIN payload = {"status"} =>
               /\ orders'[o].orders_shipped_at = orders[o].orders_shipped_at
               /\ orders'[o].orders_delivered_at = orders[o].orders_delivered_at
               /\ orders'[o].orders_cancel_reason = orders[o].orders_cancel_reason]_vars

\* A status-only update of an order that has a shipping date, a delivery
\* date and a cancel reason has changed its status, and the three are still
\* there.
C16_Witness ==
  /\ last.op \in UpdateViews
  /\ last.outcome = "ok"
  /\ last.payload = [status |-> NewStatus]
  /\ orders[last.order].orders_status = NewStatus
  /\ orders[last.order].orders_shipped_at = "2025-01-03"
  /\ orders[last.order].orders_delivered_at = "2025-01-04"
  /\ orders[last.order].orders_cancel_reason = "brak"
  /\ Len(order_status_history) = Len(orders) + 1

\* C18: GET /orders/<id>/ changes no table; its answer lists the lines of the
\* order with their quantities and the history entries of the order, each
\* exactly once, the history in ascending entry-id order; and a second GET of
\* the same order right after the first gives the same answer.
C18_IdempotentReadBack ==
  [][last'.op = "order_get" =>
       /\ UNCHANGED <<stocks, series_product, orders, orders_items,
                      order_status_history, cart_updated_at, cart_items>>
       /\ last'.outcome = "ok" =>
            LET o == last'.order
                r == last'.response
            IN /\ \A i, j \in 1..Len(r.status_history) :
                    i < j => r.status_history[i].id < r.status_history[j].id
               /\ {e.id : e \in Range(r.status_history)} =
                    {k \in 1..Len(order_status_history) :
                       order_status_history[k].orders = o}
               /\ \A i, j \in 1..Len(r.items) : i # j => r.items[i].id # r.items[j].id
               /\ {e.id : e \in Range(r.items)} = LinesOf(orders_items, o)
               /\ \A e \in Range(r.items) :
                    e.quantity = orders_items[e.id].order_items_count
               /\ \A e \in Range(r.status_history) :
                    /\ e.from_status = order_status_history[e.id].from_stat
                    /\ e.to_status = order_status_history[e.id].to_status
               /\ (last.op = "order_get" /\ last.outcome = "ok" /\ last.order = o)
                    => r = last.response]_vars

\* An order whose status was changed has been read: the answer lists two
\* history entries and the lines of the order.
C18_Witness ==
  /\ last.op = "order_get"
  /\ last.outcome = "ok"
  /\ last.order = 1
  /\ Len(last.response.status_history) = 2
  /\ Len(last.response.items) = 2

\* C13: in every step of any interleaving of status updates the history
\* entries that exist are neither modified nor removed, and afterwards every
\* order has 1 (creation) plus as many history entries as the number of times
\* its stored status changed value.
C13_HistoryCountsChanges ==
  [][/\ SubSeq(order_status_history', 1, Len(order_status_history))
          = order_status_history
     /\ \A o \in 1..Len(orders') :
          Cardinality(HistoryOf(order_status_history', o))
            = 1 + last'.status_changes[o]]_vars

\* The quantity a POST payload requests of series S.
ItemsOn(items_data, S) ==
  SumOver([i \in 1..Len(items_data) |->
             IF items_data[i].series_id = S THEN items_data[i].quantity ELSE 0],
          1..Len(items_data))

\* The quantity the items of a cart request of series S.
CartOn(items, S) ==
  SumOver([i \in 1..Len(items) |->
             IF items[i].series = S THEN items[i].cart_item_quantity ELSE 0],
          1..Len(items))

\* C21: an order of valid lines (POST /orders/ or the checkout of a cart) is
\* created if and only if, for every series, the sum of the quantities of its
\* lines on the series is at most the stock that the client's rows and the
\* public rows of the series hold at the start of the request.
C21_CumulativeAvailability ==
  [][/\ last'.op = "orders_post" =>
          ((last'.outcome = "created") <=>
             \A S \in Series :
               ItemsOn(last'.items, S)
                 <= CountOver(stocks, Pool(stocks, S, last'.client)))
     /\ (last'.op = "cart_checkout" /\ cart_items # <<>>) =>
          ((last'.outcome = "created") <=>
             \A S \in Series :
               CartOn(cart_items, S)
                 <= CountOver(stocks, Pool(stocks, S, UserClient)))
    ]_vars

\* Two lines on series 1 were ordered, each within the stock at the start
\* and together exactly the stock of the pool, which is now empty.
C21_Witness ==
  /\ last.op = "orders_post"
  /\ last.outcome = "created"
  /\ Len(last.items) = 2
  /\ \A i \in 1..2 : last.items[i].series_id = 1 /\ last.items[i].quantity = MaxQty
  /\ CountOver(stocks, Pool(stocks, 1, last.client)) = 0

\* C22: an allocation for client C and series S leaves every row of another
\* series and every row of S owned by another client as it was (quantity and
\* update date), writes only rows of S that C or the public own, and succeeds
\* exactly when the quantities of those rows cover the request: stock that
\* other clients hold never counts.
C22_AllocationScope ==
  [][last'.op = "allocate" =>
       \A scope \in {Pool(stocks, last'.series, last'.client)} :
          /\ \A id \in StockIds \ scope : stocks'[id] = stocks[id]
          /\ last'.written \subseteq scope
          /\ (last'.outcome = "ok") <=> (last'.quantity <= CountOver(stocks, scope))
    ]_vars

\* An allocation failed for lack of stock although the rows of the series,
\* counting those of another client, would have covered the request.
C22_Witness ==
  /\ last.op = "allocate"
  /\ last.outcome = "insufficient"
  /\ last.quantity <=
       CountOver(stocks, {id \in StockIds : stocks[id].series = last.series})
  /\ \E id \in StockIds :
       /\ stocks[id].series = last.series
       /\ stocks[id].client \notin {last.client, None}
       /\ stocks[id].stocks_count > 0

\* C23: whenever no request is being served (also after a request that
\* failed between its writes), every order has 1 (creation) plus as many
\* history entries as the number of times its stored status changed value: no
\* status change is stored without its entry and no entry without its change.
C23_StatusAndHistoryTogether ==
  (\A p \in Procs : requests[p].pc = "idle") =>
     \A o \in 1..Len(orders) :
        Cardinality(HistoryOf(order_status_history, o)) = 1 + last.status_changes[o]

\* The column of table orders that a key of the payload sets.
ColumnOf ==
  [shipped_at |-> "orders_shipped_at", delivered_at |-> "orders_delivered_at",
   cancel_reason |-> "orders_cancel_reason"]

\* C24: the save of a PATCH /orders/<id>/ changes the stored value of
\* shipped_at, delivered_at or cancel_reason only if the payload mentions the
\* field, also when another request wrote the order since this one read it.
C24_OmittedFieldsKept ==
  [][\A p \in Procs :
       (/\ requests[p].pc = "loaded"
        /\ requests[p].view = "order_detail_view"
        /\ requests'[p].pc = "idle")
       => \A key \in DOMAIN ColumnOf \ DOMAIN requests[p].payload :
            orders'[requests[p].order_id][ColumnOf[key]]
              = orders[requests[p].order_id][ColumnOf[key]]
    ]_vars

\* The most recent history entry of order o.
LatestEntry(o) ==
  order_status_history[
    CHOOSE k \in HistoryOf(order_status_history, o) :
      \A j \in HistoryOf(order_status_history, o) : j <= k]

\* C25: after any sequence of order creations and status updates the
\* to_status of the most recent history entry of every order equals the
\* order's stored status.
C25_LatestEntryMatches ==
  \A o \in 1..Len(orders) :
     /\ HistoryOf(order_status_history, o) # {}
     /\ LatestEntry(o).to_status = orders[o].orders_status

\* C26: for every order, in ascending entry id, the from_status of each
\* history entry after the first equals the to_status of the entry before it,
\* whatever the interleaving of the updates.
C26_HistoryChain ==
  \A o \in 1..Len(orders) :
     \A entries \in {AscendingList(HistoryOf(order_status_history, o))} :
        \A k \in 2..Len(entries) :
           order_status_history[entries[k]].from_stat
             = order_status_history[entries[k - 1]].to_status

\* The payload carries a shipped_at or delivered_at that is no ISO date.
InvalidDate(payload) ==
  \E key \in {"shipped_at", "delivered_at"} \cap DOMAIN payload :
     payload[key] \notin IsoTexts \cup {"", Null}

\* C27: an order PATCH with an invalid shipped_at or delivered_at is refused
\* and stores nothing of the request, also when it carries a valid new
\* status: the order keeps its status, dates and cancel reason and no history
\* entry is appended.
C27_RejectedUpdateChangesNothing ==
  [][(/\ last'.op \in UpdateViews
      /\ last'.order \in 1..Len(orders)
      /\ InvalidDate(last'.payload))
     => /\ last'.outcome = "rejected"
        /\ orders' = orders
        /\ order_status_history' = order_status_history]_vars

\* A request with a new status and an invalid date was refused; the order
\* still has another status.
C27_Witness ==
  /\ last.op \in UpdateViews
  /\ last.outcome = "rejected"
  /\ last.payload = [status |-> NewStatus, shipped_at |-> "soon"]
  /\ orders[last.order].orders_status # NewStatus

\* The (product, series) pairs of the rows of a cart.
CartPairs(items) == {<<items[i].product, items[i].series>> : i \in 1..Len(items)}

\* The (product, series) pairs of the lines of order o.
LinePairs(items, o) ==
  {<<items[k].product, items[k].series>> : k \in LinesOf(items, o)}

\* C28: the cart items that the commit of a checkout removes are exactly
\* those turned into lines of its order; an item added after the checkout
\* read the cart is not removed without appearing in the order.
C28_DeletesOnlyOrdered ==
  [][Len(orders') = Len(orders) + 1 =>
       CartPairs(cart_items) \ CartPairs(cart_items')
         = LinePairs(orders_items', Len(orders'))]_vars

\* C29: whenever no add is being served, the cart holds at most one item per
\* (product, series) pair, and the quantity of that item is the sum of the
\* quantities of the adds accepted for the pair.
C29_AddMerges ==
  (\A p \in Procs : requests[p].pc = "idle") =>
     \A pair \in AddPairs :
        \A found \in {cart_item_matches(cart_items, pair[1], pair[2])} :
           /\ Cardinality(found) <= 1
           /\ \A i \in found : cart_items[i].cart_item_quantity = last.accepted[pair]

\* C30: chat link exclusivity.  After any sequence and any interleaving of
\* bot link and unlink requests every chat id is held by at most one user's
\* link, active or not; no link request for a chat id held by another user
\* gets past the conflict lookup; a request with valid credentials for such
\* a chat id is answered as a conflict; and a conflict answer leaves every
\* link record as it was.
HeldBy(links, chat_id) == {user \in BotUsers : links[user].tg_chat_id = chat_id}
====
